---- MODULE Spec2Model ----
(***************************************************************************)
(* A model of the replicant core of nodecg: the mutation-tracking proxy    *)
(* layer (shared replicant code), its operation queue and flush cycle and  *)
(* the schema gate.                                                        *)
(*                                                                         *)
(* Strings that the code splits, joins or escapes (keys and paths) are     *)
(* sequences of one-character strings, so that escaping and unescaping are *)
(* computed and not assumed.  JavaScript values are records [t, v]: a      *)
(* primitive carries its tag and a number, a reference carries the heap    *)
(* address of the composite and whether it is the raw object ("raw") or    *)
(* its Proxy ("proxy").  The heap maps addresses to objects and arrays.    *)
(***************************************************************************)
EXTENDS Integers, Sequences, FiniteSets, TLC

(***************************************************************************)
(* Bounds of the model.                                                    *)
(***************************************************************************)
\* proxy-level calls (writes, deletes, mutator calls, _applyOperation) per run
MaxSteps == 2
\* heap addresses available for composites created after construction
MaxFresh == 2

(***************************************************************************)
(* Strings as sequences of characters.                                     *)
(***************************************************************************)
SLASH == "/"
TILDE == "~"
ONE == "1"

Digits == <<"0", "1", "2", "3", "4", "5", "6", "7", "8", "9">>

\* String(i) for a small array index
IdxKey(i) == <<Digits[i + 1]>>

IsIdxKey(k) == Len(k) = 1 /\ \E i \in 1..Len(Digits) : Digits[i] = k[1]

\* Number(k) for a key that is a one-digit index
KeyIdx(k) == CHOOSE i \in 0..(Len(Digits) - 1) : Digits[i + 1] = k[1]

\* key.replace(/\//g, '~1')
RECURSIVE EscapeKey(_)
EscapeKey(key) ==
    IF key = <<>> THEN <<>>
    ELSE IF Head(key) = SLASH THEN <<TILDE, ONE>> \o EscapeKey(Tail(key))
    ELSE <<Head(key)>> \o EscapeKey(Tail(key))

\* part.replace(/~1/g, '/')
RECURSIVE UnescapePart(_)
UnescapePart(part) ==
    IF part = <<>> THEN <<>>
    ELSE IF Len(part) >= 2 /\ part[1] = TILDE /\ part[2] = ONE
         THEN <<SLASH>> \o UnescapePart(SubSeq(part, 3, Len(part)))
    ELSE <<Head(part)>> \o UnescapePart(Tail(part))

\* str.split('/'): always at least one part
RECURSIVE SplitSlash(_)
SplitSlash(str) ==
    IF str = <<>> THEN << <<>> >>
    ELSE LET rest == SplitSlash(Tail(str)) IN
         IF Head(str) = SLASH THEN << <<>> >> \o rest
         ELSE << <<Head(str)>> \o rest[1] >> \o Tail(rest)

\* arr.join('/')
RECURSIVE JoinSlash(_)
JoinSlash(arr) ==
    IF arr = <<>> THEN <<>>
    ELSE IF Len(arr) = 1 THEN arr[1]
    ELSE arr[1] \o <<SLASH>> \o JoinSlash(Tail(arr))

joinPathParts(part1, part2) ==
    IF part1 # <<>> /\ part1[Len(part1)] = SLASH
    THEN part1 \o part2
    ELSE part1 \o <<SLASH>> \o part2

pathStrToPathArr(path) ==
    LET sub == IF path = <<>> THEN <<>> ELSE Tail(path)
        parts == SplitSlash(sub)
        pathArr == [i \in 1..Len(parts) |-> UnescapePart(parts[i])]
    IN IF Len(pathArr) = 1 /\ pathArr[1] = <<>> THEN <<>> ELSE pathArr

pathArrToPathStr(path) ==
    LET strPath == JoinSlash(path)
    IN IF strPath = <<>> \/ strPath[1] # SLASH THEN <<SLASH>> \o strPath ELSE strPath


(***************************************************************************)
(* JavaScript values and the heap.                                         *)
(***************************************************************************)
Num(n) == [t |-> "num", v |-> n]
Str(n) == [t |-> "str", v |-> n]
Undef == [t |-> "undef", v |-> 0]
\* an array index that holds no own property
Hole == [t |-> "hole", v |-> 0]
ProxyOf(id) == [t |-> "proxy", v |-> id]
RawOf(id) == [t |-> "raw", v |-> id]
\* typeof value === 'object' && value !== null
IsRef(val) == val.t \in {"proxy", "raw"}

Free == [t |-> "free", v |-> 0]
Obj(f) == [t |-> "obj", v |-> f]
Arr(s) == [t |-> "arr", v |-> s]
EmptyFcn == [k \in {} |-> Undef]

Reps == {"A", "B"}
NoMeta == [replicant |-> "none", path |-> <<>>]
NoErr == "none"

\* {}.hasOwnProperty.call(target, prop)
HasOwn(o, prop) ==
    IF o.t = "obj" THEN prop \in DOMAIN o.v
    ELSE IsIdxKey(prop) /\ KeyIdx(prop) < Len(o.v) /\ o.v[KeyIdx(prop) + 1] # Hole

\* target[prop]
GetProp(o, prop) ==
    IF ~HasOwn(o, prop) THEN Undef
    ELSE IF o.t = "obj" THEN o.v[prop] ELSE o.v[KeyIdx(prop) + 1]

\* the keys a for-in loop visits (arrays: ascending indices; objects: a fixed order)
RECURSIVE KeyLE(_, _)
KeyLE(a, b) ==
    IF a = <<>> THEN TRUE
    ELSE IF b = <<>> THEN FALSE
    ELSE IF a[1] = b[1] THEN KeyLE(Tail(a), Tail(b))
    ELSE LET ord == <<"/", "0", "1", "2", "3", "4", "5", "6", "7", "8", "9",
                      "a", "b", "c", "l", "x", "~">>
             rank(ch) == CHOOSE i \in 1..Len(ord) : ord[i] = ch
         IN rank(a[1]) < rank(b[1])

RECURSIVE SortKeys(_)
SortKeys(S) ==
    IF S = {} THEN <<>>
    ELSE LET m == CHOOSE k \in S : \A j \in S : KeyLE(k, j)
         IN <<m>> \o SortKeys(S \ {m})

OwnKeys(o) ==
    IF o.t = "obj" THEN SortKeys(DOMAIN o.v)
    ELSE LET RECURSIVE idx(_)
             idx(i) == IF i > Len(o.v) THEN <<>>
                       ELSE (IF o.v[i] = Hole THEN <<>> ELSE <<IdxKey(i - 1)>>) \o idx(i + 1)
         IN idx(1)

\* clone(value) / JSON form of a value: the tree below a reference
RECURSIVE Deep(_, _)
Deep(val, h) ==
    IF ~IsRef(val) THEN val
    ELSE LET o == h[val.v] IN
         IF o.t = "obj" THEN Obj([k \in DOMAIN o.v |-> Deep(o.v[k], h)])
         ELSE Arr([i \in DOMAIN o.v |-> Deep(o.v[i], h)])

\* addresses of the composites reachable from a value
RECURSIVE ReachIds(_, _)
ReachIds(val, h) ==
    IF ~IsRef(val) THEN {}
    ELSE LET o == h[val.v]
             kids == IF o.t = "obj" THEN {o.v[k] : k \in DOMAIN o.v}
                     ELSE {o.v[i] : i \in DOMAIN o.v}
         IN {val.v} \cup UNION {ReachIds(c, h) : c \in kids}

\* target[prop] = newValue on the raw target
SetHeap(h, id, prop, nv) ==
    LET o == h[id] IN
    IF o.t = "obj" THEN [h EXCEPT ![id] = Obj((prop :> nv) @@ o.v)]
    ELSE LET i == KeyIdx(prop) + 1
             n == IF i > Len(o.v) THEN i ELSE Len(o.v)
         IN [h EXCEPT ![id] = Arr([j \in 1..n |->
                IF j = i THEN nv ELSE IF j <= Len(o.v) THEN o.v[j] ELSE Hole])]

\* delete target[prop] on the raw target
DelHeap(h, id, prop) ==
    LET o == h[id] IN
    IF o.t = "obj" THEN [h EXCEPT ![id] = Obj([k \in DOMAIN o.v \ {prop} |-> o.v[k]])]
    ELSE IF HasOwn(o, prop) THEN [h EXCEPT ![id] = Arr([o.v EXCEPT ![KeyIdx(prop) + 1] = Hole])]
    ELSE h

\* a named (non-index) property on an array is outside the model
Modelled(h, id, prop) == h[id].t = "obj" \/ IsIdxKey(prop)

(***************************************************************************)
(* The native array mutators, on the sequence of an array's elements.      *)
(* Numeric arguments arrive as Num values.                                 *)
(***************************************************************************)
ARRAY_MUTATOR_METHODS ==
    {"copyWithin", "fill", "pop", "push", "reverse", "shift", "sort", "splice", "unshift"}

Min(a, b) == IF a < b THEN a ELSE b
Max(a, b) == IF a > b THEN a ELSE b

\* the default sort order: String(x) compared, undefined last, holes after that
SortRank(e) ==
    CASE e.t = "num" -> e.v
      [] e.t \in {"proxy", "raw"} -> 20
      [] e.t = "str" -> 30 + e.v
      [] e.t = "undef" -> 90
      [] OTHER -> 99

RECURSIVE InsertSorted(_, _)
InsertSorted(e, s) ==
    IF s = <<>> THEN <<e>>
    ELSE IF SortRank(e) < SortRank(s[1]) THEN <<e>> \o s
    ELSE <<s[1]>> \o InsertSorted(e, Tail(s))

RECURSIVE DefaultSort(_)
DefaultSort(s) ==
    IF s = <<>> THEN <<>>
    ELSE InsertSorted(s[Len(s)], DefaultSort(SubSeq(s, 1, Len(s) - 1)))

ArrMutate(s, method, args) ==
    LET n == Len(s) IN
    CASE method = "push" -> s \o args
      [] method = "pop" -> IF n = 0 THEN s ELSE SubSeq(s, 1, n - 1)
      [] method = "shift" -> IF n = 0 THEN s ELSE Tail(s)
      [] method = "unshift" -> args \o s
      [] method = "reverse" -> [i \in 1..n |-> s[n + 1 - i]]
      [] method = "sort" -> DefaultSort(s)
      [] method = "splice" ->
            IF args = <<>> THEN s
            ELSE LET start == Min(args[1].v, n)
                     cnt == IF Len(args) = 1 THEN n - start
                            ELSE Min(Max(args[2].v, 0), n - start)
                 IN SubSeq(s, 1, start) \o SubSeq(args, 3, Len(args))
                    \o SubSeq(s, start + cnt + 1, n)
      [] method = "fill" ->
            LET val == IF args = <<>> THEN Undef ELSE args[1]
                from == IF Len(args) >= 2 THEN Min(args[2].v, n) ELSE 0
                to == IF Len(args) >= 3 THEN Min(args[3].v, n) ELSE n
            IN [i \in 1..n |-> IF i > from /\ i <= to THEN val ELSE s[i]]
      [] method = "copyWithin" ->
            LET target == IF args = <<>> THEN 0 ELSE Min(args[1].v, n)
                from == IF Len(args) >= 2 THEN Min(args[2].v, n) ELSE 0
                to == IF Len(args) >= 3 THEN Min(args[3].v, n) ELSE n
                cnt == Min(to - from, n - target)
            IN [i \in 1..n |->
                  IF i > target /\ i <= target + cnt THEN s[from + (i - target)] ELSE s[i]]
      [] OTHER -> s

\* the default sort of an array that holds arrays compares their joined
\* contents: outside the model
MutateModelled(h, s, method) ==
    method = "sort" => \A i \in 1..Len(s) : IsRef(s[i]) => h[s[i].v].t = "obj"

(***************************************************************************)
(* object-path, as the replicant code uses it (array paths of strings).    *)
(***************************************************************************)
RECURSIVE OPGet(_, _, _)
OPGet(h, val, path) ==
    IF path = <<>> THEN val
    ELSE IF ~IsRef(val) THEN Undef
    ELSE LET nxt == GetProp(h[val.v], path[1]) IN
         IF nxt = Undef \/ Len(path) = 1 THEN nxt
         ELSE OPGet(h, nxt, Tail(path))

EmptyStr == Str(0)

Truthy(val) ==
    \/ IsRef(val)
    \/ (val.t = "num" /\ val.v # 0)
    \/ (val.t = "str" /\ val # EmptyStr)
    \/ (val.t = "bool" /\ val.v = 1)

RECURSIVE OPHasFrom(_, _, _)
OPHasFrom(h, val, path) ==
    IF path = <<>> THEN TRUE
    ELSE IF ~IsRef(val) THEN FALSE
    ELSE LET o == h[val.v]
             j == path[1]
             own == IF o.t = "arr" THEN IsIdxKey(j) /\ KeyIdx(j) < Len(o.v)
                    ELSE j \in DOMAIN o.v
         IN own /\ OPHasFrom(h, GetProp(o, j), Tail(path))

OPHas(h, val, path) == IF path = <<>> THEN Truthy(val) ELSE OPHasFrom(h, val, path)

(***************************************************************************)
(* The schema of a replicant that has one:                                 *)
(*   {type: object, required: [c], properties:                             *)
(*      {c: {type: number}, l: {type: array, items: {type: number}}}}      *)
(***************************************************************************)
KC == <<"c">>
KL == <<"l">>
KX == <<"x">>
KAB == <<"a", "/", "b">>

SchemaValidates(tree) ==
    /\ tree.t = "obj"
    /\ KC \in DOMAIN tree.v
    /\ tree.v[KC].t = "num"
    /\ KL \in DOMAIN tree.v =>
          /\ tree.v[KL].t = "arr"
          /\ \A i \in DOMAIN tree.v[KL].v : tree.v[KL].v[i].t = "num"

(***************************************************************************)
(* The state of the process.                                               *)
(***************************************************************************)
VARIABLES
    heap,              \* address -> object, array or Free
    metadataMap,       \* address -> Metadata (replicant, path) of a wrapped composite
    value,             \* replicant -> its _value
    schema,            \* replicant -> whether it has a schema
    validationErrors,  \* replicant -> whether validationErrors is non-empty
    operationQueue,    \* replicant -> _operationQueue
    pendingFlush,      \* replicant -> _pendingOperationFlush
    scheduled,         \* replicant -> flush callbacks scheduled and not yet run
    oldValue,          \* replicant -> _oldValue
    revision,          \* replicant -> revision
    ignoringProxy,     \* the set of suspended replicants
    BROWSER,           \* process.env.BROWSER
    emitting,          \* replicant -> a flush is emitting its change event
    steps,             \* proxy-level calls made so far
    last,              \* the last call: what it was and what it returned
    hist,              \* history: what the flushes delivered
    status,            \* replicant -> status
    opts,              \* replicant -> opts
    listeners,         \* replicant -> the listeners of its 'change' event, in order
    calls,             \* history: listener -> the argument lists it was invoked with
    registered,        \* history: listener -> how and when it was registered
    api,               \* the last call of the constructor, on, once, emit or validate
    registry,          \* the Replicator's declared replicants
    assets,            \* the AssetManager: watcher, deferred files, hashes in flight
    sounds,            \* the last construction of SoundsLib
    wrap,              \* the Proxy registries, with Proxies as objects of their own
    socket             \* one connected socket: its rooms and the 'joinRoom' requests it made

vars == <<heap, metadataMap, value, schema, validationErrors, operationQueue,
          pendingFlush, scheduled, oldValue, revision, ignoringProxy, BROWSER,
          emitting, steps, last, hist, status, opts, listeners, calls, registered, api,
          registry, assets, sounds, wrap, socket>>

sysVars == <<registry, assets, sounds, wrap, socket>>

\* the state of the replicants, without the step counter and the last API call
replicantVars ==
    <<heap, metadataMap, value, schema, validationErrors, operationQueue, pendingFlush,
      scheduled, oldValue, revision, ignoringProxy, BROWSER, emitting, last, hist,
      status, opts, listeners, calls, registered>>

apiVars == <<status, opts, listeners, calls, registered, api>>

NInit == 4
Ids == 1..(NInit + MaxFresh)

(***************************************************************************)
(* Handlers are functions from a world (the mutable part of the state, and *)
(* err, the exception in flight) to a world.                               *)
(***************************************************************************)
World ==
    [heap |-> heap, meta |-> metadataMap, value |-> value, queue |-> operationQueue,
     pending |-> pendingFlush, sched |-> scheduled, old |-> oldValue,
     ign |-> ignoringProxy, verr |-> validationErrors, err |-> NoErr, ret |-> TRUE,
     pret |-> Undef]

Throw(W, e) == [W EXCEPT !.err = e]

\* a suspension that suspends nothing
NoSuspension(W, r) == W

ignoreProxy(W, r) == [W EXCEPT !.ign = @ \cup {r}]
resumeProxy(W, r) == [W EXCEPT !.ign = @ \ {r}]
isIgnoringProxy(W, r) == r \in W.ign

IsFree(o) == o.t = "free"
HasFreeId(W) == \E id \in DOMAIN W.heap : IsFree(W.heap[id])
NewId(W) ==
    CHOOSE id \in DOMAIN W.heap :
        IsFree(W.heap[id]) /\ \A j \in DOMAIN W.heap : IsFree(W.heap[j]) => id <= j

Op(path, method, prop, nv, margs) ==
    [path |-> path, method |-> method, prop |-> prop, newValue |-> nv, margs |-> margs]

\* _addOperation: append; the first enqueue of a turn snapshots the value and
\* schedules the flush
AddOperation(W, r, op) ==
    IF W.pending[r]
    THEN [W EXCEPT !.queue[r] = Append(@, op)]
    ELSE [W EXCEPT !.queue[r] = Append(@, op),
                   !.old[r] = Deep(W.value[r], W.heap),
                   !.pending[r] = TRUE,
                   !.sched[r] = @ + 1]

\* the generated validator, throwOnInvalid left at its default
Validate(W, r, tree) ==
    IF SchemaValidates(tree) THEN W
    ELSE [W EXCEPT !.verr[r] = TRUE, !.err = "SchemaError"]

RawSet(W, id, prop, nv) ==
    IF ~Modelled(W.heap, id, prop) THEN Throw(W, "Unmodelled")
    ELSE [W EXCEPT !.heap = SetHeap(W.heap, id, prop, nv)]

RawDelete(W, id, prop) == [W EXCEPT !.heap = DelHeap(W.heap, id, prop)]

RawMutate(W, id, method, args) ==
    IF ~MutateModelled(W.heap, W.heap[id].v, method) THEN Throw(W, "Unmodelled")
    ELSE [W EXCEPT !.heap[id] = Arr(ArrMutate(W.heap[id].v, method, args))]

\* Handlers are written as chains of steps: each step takes the world its
\* predecessor left, and passes an exception in flight through unchanged.
Ok(W) == W.err = NoErr

\* clone(replicant.value): the copy lives at fresh addresses (those of the
\* original, moved up by the size of the heap) and keeps the sharing of the
\* original; what is then written into the copy is not copied
CloneRef(val, n) == IF IsRef(val) THEN RawOf(val.v + n) ELSE val

CloneObj(o, n) ==
    IF o.t = "obj" THEN Obj([k \in DOMAIN o.v |-> CloneRef(o.v[k], n)])
    ELSE IF o.t = "arr" THEN Arr([i \in 1..Len(o.v) |-> CloneRef(o.v[i], n)])
    ELSE o

CloneHeap(h) ==
    [i \in 1..(2 * Len(h)) |-> IF i <= Len(h) THEN h[i] ELSE CloneObj(h[i - Len(h)], Len(h))]

\* objectPath.get(valueClone, path), the mutation on the clone,
\* replicant.validate(valueClone)
DryRunSetAt(W, r, h, valueClone, targetClone, prop, nv) ==
    IF ~IsRef(targetClone) THEN Throw(W, "TypeError")
    ELSE IF ~Modelled(h, targetClone.v, prop) THEN Throw(W, "Unmodelled")
    ELSE Validate(W, r, Deep(valueClone, SetHeap(h, targetClone.v, prop, nv)))

DryRunSetIn(W, r, h, valueClone, path, prop, nv) ==
    DryRunSetAt(W, r, h, valueClone, OPGet(h, valueClone, pathStrToPathArr(path)), prop, nv)

DryRunSet(W, r, path, prop, nv) ==
    DryRunSetIn(W, r, CloneHeap(W.heap), CloneRef(W.value[r], Len(W.heap)), path, prop, nv)

DryRunDeleteAt(W, r, h, valueClone, targetClone, prop) ==
    IF targetClone = Undef THEN Throw(W, "TypeError")
    ELSE IF ~IsRef(targetClone) THEN Validate(W, r, Deep(valueClone, h))
    ELSE Validate(W, r, Deep(valueClone, DelHeap(h, targetClone.v, prop)))

DryRunDeleteIn(W, r, h, valueClone, path, prop) ==
    DryRunDeleteAt(W, r, h, valueClone, OPGet(h, valueClone, pathStrToPathArr(path)), prop)

DryRunDelete(W, r, path, prop) ==
    DryRunDeleteIn(W, r, CloneHeap(W.heap), CloneRef(W.value[r], Len(W.heap)), path, prop)

DryRunMutatorAt(W, r, h, valueClone, targetClone, method, args) ==
    IF ~IsRef(targetClone) \/ h[targetClone.v].t # "arr" THEN Throw(W, "TypeError")
    ELSE IF ~MutateModelled(h, h[targetClone.v].v, method) THEN Throw(W, "Unmodelled")
    ELSE Validate(W, r, Deep(valueClone,
            [h EXCEPT ![targetClone.v] = Arr(ArrMutate(@.v, method, args))]))

DryRunMutatorIn(W, r, h, valueClone, path, method, args) ==
    DryRunMutatorAt(W, r, h, valueClone, OPGet(h, valueClone, pathStrToPathArr(path)),
                    method, args)

DryRunMutator(W, r, path, method, args) ==
    DryRunMutatorIn(W, r, CloneHeap(W.heap), CloneRef(W.value[r], Len(W.heap)),
                    path, method, args)

\* if (replicant.schema) { ...dry run... }
GateSet(W, r, path, prop, nv) == IF schema[r] THEN DryRunSet(W, r, path, prop, nv) ELSE W
GateDelete(W, r, path, prop) == IF schema[r] THEN DryRunDelete(W, r, path, prop) ELSE W
GateMutator(W, r, path, method, args) ==
    IF schema[r] THEN DryRunMutator(W, r, path, method, args) ELSE W

Enqueue(W, r, op) == IF Ok(W) THEN AddOperation(W, r, op) ELSE W

RECURSIVE TrapSet(_, _, _, _)
RECURSIVE proxyRecursive(_, _, _, _)
RECURSIVE ProxyChildren(_, _, _, _, _)

\* value[key] = ..., through the set trap when value is a Proxy
Assign(W, ref, prop, nv) ==
    IF ref.t = "proxy" THEN TrapSet(W, ref.v, prop, nv) ELSE RawSet(W, ref.v, prop, nv)

assertSingleOwner(W, replicant, val) ==
    W.meta[val.v] = NoMeta \/ W.meta[val.v].replicant = replicant

\* the three branches of proxyRecursive that find or make the Proxy of value
WrapOne(W, replicant, id, path) ==
    IF W.meta[id] # NoMeta
    THEN [W EXCEPT !.meta[id].path = path]
    ELSE [W EXCEPT !.meta[id] = [replicant |-> replicant, path |-> path]]

Return(W, val) == IF Ok(W) THEN [W EXCEPT !.pret = val] ELSE W

\* proxyRecursive(replicant, value, path); what it returns is left in pret
proxyRecursive(W, replicant, val, path) ==
    IF ~IsRef(val) THEN Return(W, val)
    ELSE IF ~assertSingleOwner(W, replicant, val) THEN Throw(W, "CrossOwnership")
    ELSE Return(ProxyChildren(WrapOne(W, replicant, val.v, path), replicant, val, path,
                              OwnKeys(W.heap[val.v])),
                ProxyOf(val.v))

\* the path proxyRecursive gives the child at key
ChildPath(path, key) ==
    IF path # <<>> THEN joinPathParts(path, EscapeKey(key)) ELSE EscapeKey(key)

\* value[key] = proxyRecursive(...)
StoreChild(W, val, key) == IF Ok(W) THEN Assign(W, val, key, W.pret) ELSE W

\* the for-in loop of proxyRecursive
ProxyChildren(W, replicant, val, path, keys) ==
    IF keys = <<>> \/ ~Ok(W) THEN W
    ELSE ProxyChildren(
            StoreChild(proxyRecursive(W, replicant, GetProp(W.heap[val.v], Head(keys)),
                                      ChildPath(path, Head(keys))),
                       val, Head(keys)),
            replicant, val, path, Tail(keys))

\* the path under which the set traps wrap the value written to target[prop]
SetTrapChildPath(path, prop) == joinPathParts(path, prop)

\* target[prop] = proxyRecursive(...)
StoreWrapped(W, id, prop) == IF Ok(W) THEN RawSet(W, id, prop, W.pret) ELSE W

\* if (!process.env.BROWSER) { target[prop] = proxyRecursive(...) }
SetLocally(W, replicant, id, prop, nv, path) ==
    IF ~Ok(W) \/ BROWSER THEN W
    ELSE StoreWrapped(proxyRecursive(W, replicant, nv, SetTrapChildPath(path, prop)), id, prop)

\* a comparison that never finds two values equal
NeverEqual(a, b) == FALSE

\* target[prop] === newValue
StrictEqual(a, b) == a = b

\* CHILD_OBJECT_HANDLER.set and CHILD_ARRAY_HANDLER.set
TrapSet(W, id, prop, nv) ==
    IF ~Modelled(W.heap, id, prop) THEN Throw(W, "Unmodelled")
    ELSE IF StrictEqual(GetProp(W.heap[id], prop), nv) THEN W
    ELSE IF W.meta[id] = NoMeta THEN Throw(W, "NoMetadata")
    ELSE LET metadata == W.meta[id]
             replicant == metadata.replicant
             method == IF HasOwn(W.heap[id], prop) THEN "update" ELSE "add"
         IN
         IF isIgnoringProxy(W, replicant) THEN RawSet(W, id, prop, nv)
         ELSE SetLocally(
                Enqueue(GateSet(W, replicant, metadata.path, prop, nv), replicant,
                        Op(metadata.path, method, prop, nv, <<>>)),
                replicant, id, prop, nv, metadata.path)

\* a delete trap that deletes on either side
DeleteEverywhere(W, id, prop) == IF ~Ok(W) THEN W ELSE RawDelete(W, id, prop)

\* if (!process.env.BROWSER) { return delete target[prop] }
DeleteLocally(W, id, prop) ==
    IF ~Ok(W) THEN W
    ELSE IF BROWSER THEN [W EXCEPT !.ret = FALSE]
    ELSE RawDelete(W, id, prop)

\* deleteTrap
TrapDelete(W, id, prop) ==
    IF W.meta[id] = NoMeta THEN Throw(W, "NoMetadata")
    ELSE LET metadata == W.meta[id]
             replicant == metadata.replicant
         IN
         IF isIgnoringProxy(W, replicant) THEN RawDelete(W, id, prop)
         ELSE IF ~HasOwn(W.heap[id], prop) THEN W
         ELSE DeleteLocally(
                Enqueue(GateDelete(W, replicant, metadata.path, prop), replicant,
                        Op(metadata.path, "delete", prop, Undef, <<>>)),
                id, prop)

\* resumeProxy(replicant); proxyRecursive(replicant, target, metadata.path)
ResumeAndRewrap(W, replicant, id, path) ==
    IF ~Ok(W) THEN W
    ELSE proxyRecursive(resumeProxy(W, replicant), replicant, RawOf(id), path)

\* the two branches of the mutator wrapper
MutateLocally(W, replicant, id, op) ==
    IF ~Ok(W) THEN W
    ELSE IF BROWSER THEN AddOperation(W, replicant, op)
    ELSE ResumeAndRewrap(
            RawMutate(AddOperation(ignoreProxy(W, replicant), replicant, op),
                      id, op.method, op.margs),
            replicant, id, op.path)

\* CHILD_ARRAY_HANDLER.get for a mutator name, and the call of what it returns
TrapMutator(W, id, method, args) ==
    IF W.meta[id] = NoMeta THEN Throw(W, "NoMetadata")
    ELSE LET metadata == W.meta[id]
             replicant == metadata.replicant
         IN
         IF isIgnoringProxy(W, replicant) THEN RawMutate(W, id, method, args)
         ELSE MutateLocally(GateMutator(W, replicant, metadata.path, method, args),
                            replicant, id, Op(metadata.path, method, <<>>, Undef, args))

\* objectPath.set(obj, path, newValue): missing steps of the path become {}
RECURSIVE OPSet(_, _, _, _)

OPSetBelow(W, obj, path, nv) ==
    IF ~Ok(W) THEN W ELSE OPSet(W, GetProp(W.heap[obj.v], path[1]), Tail(path), nv)

OPSet(W, obj, path, nv) ==
    IF ~IsRef(obj) THEN Throw(W, "TypeError")
    ELSE IF ~Modelled(W.heap, obj.v, path[1]) THEN Throw(W, "Unmodelled")
    ELSE IF Len(path) = 1 THEN Assign(W, obj, path[1], nv)
    ELSE IF GetProp(W.heap[obj.v], path[1]) # Undef THEN OPSetBelow(W, obj, path, nv)
    ELSE IF ~HasFreeId(W) THEN Throw(W, "Unmodelled")
    ELSE OPSetBelow(Assign([W EXCEPT !.heap[NewId(W)] = Obj(EmptyFcn)], obj, path[1],
                           RawOf(NewId(W))),
                    obj, path, nv)

\* result = arr[method].apply(arr, args); proxyRecursive(this, arr, path)
ApplyRewrap(W, this, arr, path) ==
    IF ~Ok(W) THEN W ELSE proxyRecursive(W, this, arr, path)

ApplyMutatorAt(W, this, arr, operation) ==
    IF ~IsRef(arr) \/ W.heap[arr.v].t # "arr" THEN Throw(W, "Error")
    ELSE ApplyRewrap(
            IF arr.t = "proxy"
            THEN TrapMutator(W, arr.v, operation.method, operation.margs)
            ELSE RawMutate(W, arr.v, operation.method, operation.margs),
            this, arr, operation.path)

\* this.value = proxyRecursive(...)
StoreValue(W, this) == IF Ok(W) THEN [W EXCEPT !.value[this] = W.pret] ELSE W

\* objectPath.set(this.value, path, proxyRecursive(...))
StoreAtPath(W, this, path) ==
    IF Ok(W) THEN OPSet(W, W.value[this], path, W.pret) ELSE W

\* strict code: a falsy result of the trap makes delete throw
DeleteChecked(W) == IF Ok(W) /\ ~W.ret THEN Throw(W, "TypeError") ELSE W

ApplyDeleteAt(W, target, prop) ==
    IF target = Undef THEN Throw(W, "TypeError")
    ELSE IF ~IsRef(target) THEN W
    ELSE IF target.t = "proxy" THEN DeleteChecked(TrapDelete(W, target.v, prop))
    ELSE RawDelete(W, target.v, prop)

\* the body of _applyOperation between ignoreProxy and resumeProxy
ApplyBody(W, this, operation) ==
    LET path == pathStrToPathArr(operation.path) IN
    IF operation.method \in ARRAY_MUTATOR_METHODS THEN
        IF ~IsRef(W.value[this]) THEN Throw(W, "Error")
        ELSE ApplyMutatorAt(W, this, OPGet(W.heap, W.value[this], path), operation)
    ELSE IF operation.method = "overwrite" THEN
        StoreValue(proxyRecursive(W, this, operation.newValue, operation.path), this)
    ELSE IF operation.method \in {"add", "update"} THEN
        StoreAtPath(proxyRecursive(W, this, operation.newValue,
                                   pathArrToPathStr(Append(path, operation.prop))),
                    this, Append(path, operation.prop))
    ELSE IF operation.method = "delete" THEN
        IF path = <<>> \/ OPHas(W.heap, W.value[this], path)
        THEN ApplyDeleteAt(W, OPGet(W.heap, W.value[this], path), operation.prop)
        ELSE W
    ELSE Throw(W, "Error")

\* resumeProxy(this), reached when nothing was thrown
ResumeAfter(W, this) == IF Ok(W) THEN resumeProxy(W, this) ELSE W

\* _applyOperation
applyOperation(W, this, operation) ==
    ResumeAfter(ApplyBody(ignoreProxy(W, this), this, operation), this)

(***************************************************************************)
(* Construction: A holds {x: {}}, B holds {c: 0, l: [1]}; B may have the   *)
(* schema; each value is wrapped by proxyRecursive at the root path.       *)
(***************************************************************************)
ROOT == <<SLASH>>

\* the two values as proxyRecursive leaves them at declaration: every
\* composite wrapped, and registered under its owner and its path
InitHeap ==
    [id \in Ids |->
        CASE id = 1 -> Obj(KX :> ProxyOf(2))
          [] id = 2 -> Obj(EmptyFcn)
          [] id = 3 -> Obj((KC :> Num(0)) @@ (KL :> ProxyOf(4)))
          [] id = 4 -> Arr(<<Num(1)>>)
          [] OTHER -> Free]

InitMeta ==
    [id \in Ids |->
        CASE id = 1 -> [replicant |-> "A", path |-> ROOT]
          [] id = 2 -> [replicant |-> "A", path |-> ChildPath(ROOT, KX)]
          [] id = 3 -> [replicant |-> "B", path |-> ROOT]
          [] id = 4 -> [replicant |-> "B", path |-> ChildPath(ROOT, KL)]
          [] OTHER -> NoMeta]

InitWorld ==
    [heap |-> InitHeap, meta |-> InitMeta,
     value |-> [r \in Reps |-> IF r = "A" THEN ProxyOf(1) ELSE ProxyOf(3)],
     queue |-> [r \in Reps |-> <<>>],
     pending |-> [r \in Reps |-> FALSE], sched |-> [r \in Reps |-> 0],
     old |-> [r \in Reps |-> Undef], ign |-> {},
     verr |-> [r \in Reps |-> FALSE], err |-> NoErr, ret |-> TRUE,
     pret |-> Undef]

\* revision++
NextRevision(rev) == rev + 1

\* a counter that starts one too high
RevisionOffByOne == NextRevision(0)

InitRevision == 0

\* the arguments of a call: the property, the value written, the mutator and
\* its arguments
Args(prop, nv, method, margs) == [prop |-> prop, nv |-> nv, method |-> method, margs |-> margs]
NoArgs == Args(<<>>, Undef, "none", <<>>)

\* a boolean as a value
Bool(b) == [t |-> "bool", v |-> IF b THEN 1 ELSE 0]

DEFAULT_PERSISTENCE_INTERVAL == 100

\* the options of a replicant constructed without any
DefaultOpts ==
    [persistent |-> Bool(TRUE), persistenceInterval |-> Num(DEFAULT_PERSISTENCE_INTERVAL)]

\* the functions a caller registers as listeners
Fns == {"f", "g"}

NotRegistered == [how |-> "no", status |-> "none", value |-> Undef]

\* a call of the public API: what was called, with what, what it threw and
\* what it returned
Api(kind, args, err, ret) == [kind |-> kind, args |-> args, err |-> err, ret |-> ret]
NoApi == Api("none", <<>>, NoErr, TRUE)

\* the composites and the Proxies of the registry model
RawIds == 1..3
ProxyIds == 1..3
NoRecord == 0
RawVal(id) == [k |-> "raw", id |-> id]
ProxyVal(id) == [k |-> "proxy", id |-> id]

\* no composite is wrapped: the three registries are empty
NoWraps ==
    [metadataMap |-> [id \in RawIds |-> NoRecord],
     proxyMetadataMap |-> [p \in ProxyIds |-> NoRecord],
     proxySet |-> {},
     target |-> [p \in ProxyIds |-> 0],
     records |-> <<>>,
     call |-> [replicant |-> "none", value |-> RawVal(0), path |-> <<>>],
     err |-> NoErr, ret |-> RawVal(0), made |-> 0]

\* the AssetManager before its watcher has reported anything: ready = false,
\* deferredFiles = new Map(), the category replicant's value [] (its
\* defaultValue), no sha1File call in flight and no debounce timer running
InitAssets ==
    [ready |-> FALSE, deferredFiles |-> <<>>, rep |-> <<>>, hashing |-> <<>>,
     debounced |-> {}, onDisk |-> {}, events |-> 0, hashed |-> {}, published |-> {},
     unlinked |-> {}]

\* no SoundsLib has been constructed
NoSounds == [made |-> FALSE, declared |-> FALSE, manifest |-> <<>>, persisted |-> <<>>,
             value |-> <<>>]

\* a socket that has just been given its handlers by the middleware: it is in
\* no room, no join is under way and it has made no 'joinRoom' request
NewSocket == [rooms |-> {}, joining |-> {}, joins |-> <<>>, requests |-> <<>>,
              callbacks |-> <<>>]

NoCall ==
    [kind |-> "none", rep |-> "A", err |-> NoErr, ret |-> TRUE, pre |-> Undef,
     preQ |-> <<>>, invalid |-> FALSE, foreign |-> FALSE, suspended |-> FALSE,
     listener |-> FALSE, keyPaths |-> {}, ops |-> <<>>, post |-> Undef,
     id |-> 0, owner |-> "none", call |-> NoArgs, hadOwn |-> FALSE, held |-> Undef, path |-> <<>>,
     now |-> Undef, given |-> Undef, was |-> Undef, givenArgs |-> <<>>, preSched |-> 0, preVerr |-> FALSE,
     postSched |-> 0, postVerr |-> FALSE]

Init ==
    /\ heap = InitWorld.heap
    /\ metadataMap = InitWorld.meta
    /\ value = InitWorld.value
    /\ schema \in {[r \in Reps |-> r = "B" /\ b] : b \in BOOLEAN}
    /\ validationErrors = [r \in Reps |-> FALSE]
    /\ operationQueue = [r \in Reps |-> <<>>]
    /\ pendingFlush = [r \in Reps |-> FALSE]
    /\ scheduled = [r \in Reps |-> 0]
    /\ oldValue = [r \in Reps |-> Undef]
    /\ revision = [r \in Reps |-> InitRevision]
    /\ ignoringProxy = {}
    /\ BROWSER \in BOOLEAN
    /\ emitting = [r \in Reps |-> FALSE]
    /\ steps = 0
    /\ last = NoCall
    /\ hist = [pre |-> [r \in Reps |-> Deep(InitWorld.value[r], InitWorld.heap)],
               clean |-> TRUE,
               remote |-> FALSE,
               flushes |-> [r \in Reps |-> 0],
               changes |-> [r \in Reps |-> 0],
               broadcasts |-> [r \in Reps |-> 0],
               batch |-> [r \in Reps |-> <<>>],
               enqueued |-> [r \in Reps |-> 0],
               delivered |-> [r \in Reps |-> 0],
               verdict |-> [r \in Reps |-> "none"],
               replay |-> [r \in Reps |-> "none"]]
    /\ status = [r \in Reps |-> "declared"]
    /\ opts = [r \in Reps |-> DefaultOpts]
    /\ listeners = [r \in Reps |-> <<>>]
    /\ calls = [fn \in Fns |-> <<>>]
    /\ registered = [fn \in Fns |-> NotRegistered]
    /\ api = NoApi
    /\ registry = <<>>
    /\ assets = InitAssets
    /\ sounds = NoSounds
    /\ wrap = NoWraps
    /\ socket = NewSocket

(***************************************************************************)
(* Replaying a batch on a fresh replicant: the pre-batch value and the     *)
(* operations travel as JSON, so what arrives is a tree, not a reference.  *)
(***************************************************************************)
\* an operation as it is sent: its values are the trees they hold at that time
Serialise(op, h) ==
    [op EXCEPT !.newValue = Deep(@, h), !.margs = [i \in DOMAIN @ |-> Deep(@[i], h)]]

ScratchIds == 1..(3 * (NInit + MaxFresh))

EmptyWorld ==
    [heap |-> [id \in ScratchIds |-> Free], meta |-> [id \in ScratchIds |-> NoMeta],
     value |-> [r \in Reps |-> Undef], queue |-> [r \in Reps |-> <<>>],
     pending |-> [r \in Reps |-> FALSE], sched |-> [r \in Reps |-> 0],
     old |-> [r \in Reps |-> Undef], ign |-> {},
     verr |-> [r \in Reps |-> FALSE], err |-> NoErr, ret |-> TRUE, pret |-> Undef]

TreeKeys(tree) ==
    IF tree.t = "obj" THEN SortKeys(DOMAIN tree.v)
    ELSE [i \in 1..Len(tree.v) |-> IdxKey(i - 1)]

TreeGet(tree, key) == IF tree.t = "obj" THEN tree.v[key] ELSE tree.v[KeyIdx(key) + 1]

RECURSIVE Place(_, _)
RECURSIVE PlaceKids(_, _, _, _)
RECURSIVE PlaceArgs(_, _, _)

PutKid(W, id, key) ==
    IF Ok(W) THEN [W EXCEPT !.heap = SetHeap(W.heap, id, key, W.pret)] ELSE W

\* a received tree becomes new raw composites; the reference to it is left in pret
Place(W, tree) ==
    IF ~Ok(W) THEN W
    ELSE IF tree.t \notin {"obj", "arr"} THEN Return(W, tree)
    ELSE IF ~HasFreeId(W) THEN Throw(W, "Unmodelled")
    ELSE Return(PlaceKids([W EXCEPT !.heap[NewId(W)] =
                                IF tree.t = "obj" THEN Obj(EmptyFcn) ELSE Arr(<<>>)],
                          NewId(W), tree, TreeKeys(tree)),
                RawOf(NewId(W)))

PlaceKids(W, id, tree, keys) ==
    IF keys = <<>> \/ ~Ok(W) THEN W
    ELSE PlaceKids(PutKid(Place(W, TreeGet(tree, Head(keys))), id, Head(keys)),
                   id, tree, Tail(keys))

PlaceNextArg(W, rest, acc) ==
    IF Ok(W) THEN PlaceArgs(W, rest, Append(acc, W.pret)) ELSE W

PlaceArgs(W, args, acc) ==
    IF ~Ok(W) THEN W
    ELSE IF args = <<>> THEN Return(W, acc)
    ELSE PlaceNextArg(Place(W, Head(args)), Tail(args), acc)

\* the value a replicant is constructed with, wrapped at the root path
Declare(W, r) ==
    IF Ok(W) THEN StoreValue(proxyRecursive(W, r, W.pret, ROOT), r) ELSE W

\* _applyOperation of a received operation
ApplyReceived(W, r, op) ==
    IF ~Ok(W) THEN W
    ELSE applyOperation(W, r,
            IF op.method \in ARRAY_MUTATOR_METHODS
            THEN [op EXCEPT !.margs = W.pret]
            ELSE [op EXCEPT !.newValue = W.pret])

RECURSIVE Replay(_, _, _)
Replay(W, r, ops) ==
    IF ops = <<>> \/ ~Ok(W) THEN W
    ELSE Replay(ApplyReceived(IF Head(ops).method \in ARRAY_MUTATOR_METHODS
                              THEN PlaceArgs(W, Head(ops).margs, <<>>)
                              ELSE Place(W, Head(ops).newValue),
                              r, Head(ops)),
                r, Tail(ops))

\* how the replayed value compares with the value the mutations left
Verdict(W, r, tree) ==
    IF W.err = "Unmodelled" THEN "unmodelled"
    ELSE IF Ok(W) /\ Deep(W.value[r], W.heap) = tree THEN "equal"
    ELSE "differs"

ReplayVerdict(r, pre, ops, tree) ==
    Verdict(Replay(Declare(Place(EmptyWorld, pre), r), r, ops), r, tree)

(***************************************************************************)
(* The calls the program's users make.                                     *)
(***************************************************************************)
\* the composites of r's value that the user can reach as Proxies
UserTargets(r) == {id \in ReachIds(value[r], heap) : metadataMap[id] # NoMeta}

WriteKeys == {KC, KL, KX, KAB}
MaxArrLen == 3

PropsOf(id) ==
    IF heap[id].t = "obj" THEN WriteKeys
    ELSE {IdxKey(i) : i \in 0..Min(Len(heap[id].v), MaxArrLen - 1)}

\* the values a caller writes: primitives, fresh literals ({} and []), Proxies
\* read from this replicant and Proxies read from the other one
PrimValues == {Num(2), Str(1)}
FreshKinds == {Obj(EmptyFcn), Arr(<<>>)}
HeldProxies(r) == {ProxyOf(id) : id \in UserTargets(r) \cup UserTargets(CHOOSE q \in Reps : q # r)}

\* no step runs while another replicant's flush is emitting, and a run is bounded
CanCall(r) ==
    /\ steps < MaxSteps
    /\ \A q \in Reps : emitting[q] => q = r

\* the key sequences that lead from a value to the composite at address id
RECURSIVE KeyPathsTo(_, _, _)
KeyPathsTo(val, h, id) ==
    IF ~IsRef(val) THEN {}
    ELSE LET keys == OwnKeys(h[val.v]) IN
         (IF val.v = id THEN {<<>>} ELSE {})
         \cup UNION {{<<keys[i]>> \o p : p \in KeyPathsTo(GetProp(h[val.v], keys[i]), h, id)} :
                        i \in 1..Len(keys)}

\* the value of r before the first mutation of the batch that is in its queue
PreBatch(r) == IF operationQueue[r] = <<>> THEN Deep(value[r], heap) ELSE hist.pre[r]

\* what every call leaves behind; last and hist record the call for the properties
Commit(W, r, kind, id, invalid, foreign, call) ==
    /\ W.err # "Unmodelled"
    /\ heap' = W.heap
    /\ metadataMap' = W.meta
    /\ value' = W.value
    /\ validationErrors' = W.verr
    /\ operationQueue' = W.queue
    /\ pendingFlush' = W.pending
    /\ scheduled' = W.sched
    /\ oldValue' = W.old
    /\ ignoringProxy' = W.ign
    /\ steps' = steps + 1
    /\ last' = [kind |-> kind, rep |-> r, err |-> W.err, ret |-> W.ret,
                pre |-> Deep(value[r], heap), preQ |-> operationQueue[r],
                invalid |-> invalid, foreign |-> foreign,
                suspended |-> r \in ignoringProxy, listener |-> emitting[r],
                keyPaths |-> KeyPathsTo(value[r], heap, id),
                ops |-> SubSeq(W.queue[r], Len(operationQueue[r]) + 1, Len(W.queue[r])),
                post |-> Deep(W.value[r], W.heap),
                id |-> id, call |-> call,
                owner |-> IF metadataMap[id] # NoMeta THEN metadataMap[id].replicant ELSE "none",
                hadOwn |-> call.prop # <<>> /\ HasOwn(heap[id], call.prop),
                held |-> IF call.prop # <<>> THEN GetProp(heap[id], call.prop) ELSE Undef,
                path |-> IF metadataMap[id] # NoMeta THEN metadataMap[id].path ELSE <<>>,
                now |-> IF call.prop # <<>> /\ W.heap[id].t # "free"
                        THEN Deep(GetProp(W.heap[id], call.prop), W.heap) ELSE Deep(RawOf(id), W.heap),
                given |-> Deep(call.nv, W.heap),
                was |-> Deep(RawOf(id), heap),
                givenArgs |-> [i \in DOMAIN call.margs |-> Deep(call.margs[i], W.heap)],
                preSched |-> scheduled[r], preVerr |-> validationErrors[r],
                postSched |-> W.sched[r], postVerr |-> W.verr[r]]
    /\ hist' = [hist EXCEPT
                  !.pre[r] = PreBatch(r),
                  !.verdict[r] =
                      ReplayVerdict(r, PreBatch(r),
                                    [i \in DOMAIN W.queue[r] |-> Serialise(W.queue[r][i], W.heap)],
                                    Deep(W.value[r], W.heap)),
                  !.clean = @ /\ W.err = NoErr /\ kind # "apply",
                  !.remote = @ \/ kind = "apply",
                  !.enqueued[r] = @ + Len(W.queue[r]) - Len(operationQueue[r])]
    /\ UNCHANGED <<schema, revision, BROWSER, emitting>>
    /\ UNCHANGED apiVars
    /\ UNCHANGED sysVars

Foreign(r, nv) == IsRef(nv) /\ metadataMap[nv.v] # NoMeta /\ metadataMap[nv.v].replicant # r

\* proxy[prop] = newValue
ProxySet(r, id, prop, nv) ==
    /\ CanCall(r)
    /\ id \notin ReachIds(nv, heap)
    /\ Commit(TrapSet(World, id, prop, nv), r, "set", id,
              ~SchemaValidates(Deep(value[r], SetHeap(heap, id, prop, nv))),
              Foreign(r, nv), Args(prop, nv, "set", <<>>))

\* proxy[prop] = {} or proxy[prop] = []
ProxySetFresh(r, id, prop, kind) ==
    /\ CanCall(r)
    /\ HasFreeId(World)
    /\ LET nid == NewId(World)
           W == [World EXCEPT !.heap[nid] = kind]
       IN Commit(TrapSet(W, id, prop, RawOf(nid)), r, "set", id,
                 ~SchemaValidates(Deep(value[r], SetHeap(W.heap, id, prop, RawOf(nid)))),
                 FALSE, Args(prop, RawOf(nid), "set", <<>>))

\* delete proxy[prop]
ProxyDelete(r, id, prop) ==
    /\ CanCall(r)
    /\ Commit(TrapDelete(World, id, prop), r, "delete", id,
              ~SchemaValidates(Deep(value[r], DelHeap(heap, id, prop))), FALSE,
              Args(prop, Undef, "delete", <<>>))

MutatorCalls(r) ==
    {<<"push", <<Num(2)>>>>, <<"push", <<Str(1)>>>>, <<"pop", <<>>>>,
     <<"shift", <<>>>>, <<"unshift", <<Num(2)>>>>, <<"reverse", <<>>>>,
     <<"sort", <<>>>>, <<"splice", <<Num(0), Num(1)>>>>, <<"fill", <<Str(1)>>>>,
     <<"copyWithin", <<Num(0), Num(1)>>>>}
    \cup {<<"push", <<p>>>> : p \in HeldProxies(r)}

\* proxy.method(...args) for an array mutator
ProxyMutator(r, id, call) ==
    /\ CanCall(r)
    /\ heap[id].t = "arr"
    /\ Len(heap[id].v) + Len(call[2]) <= MaxArrLen
    /\ \A i \in 1..Len(call[2]) : id \notin ReachIds(call[2][i], heap)
    /\ Commit(TrapMutator(World, id, call[1], call[2]), r, "mutator", id,
              ~SchemaValidates(Deep(value[r],
                  [heap EXCEPT ![id] = Arr(ArrMutate(@.v, call[1], call[2]))])),
              \E i \in 1..Len(call[2]) : Foreign(r, call[2][i]),
              Args(<<>>, Undef, call[1], call[2]))

\* the operations that arrive from the other side
RemoteOps(r) ==
    {Op(ROOT, "update", KC, Str(1), <<>>),
     Op(ROOT, "add", KX, Num(2), <<>>),
     Op(<<SLASH>> \o KX, "add", KC, Num(2), <<>>),
     Op(ROOT, "delete", KL, Undef, <<>>),
     Op(<<SLASH>> \o KL, "push", <<>>, Undef, <<Num(2)>>),
     Op(<<SLASH>> \o KC, "push", <<>>, Undef, <<Num(2)>>),
     Op(ROOT, "bogus", <<>>, Undef, <<>>)}

\* replicant._applyOperation(operation)
ApplyOperation(r, op) ==
    /\ CanCall(r)
    /\ ~emitting[r]
    /\ Commit(applyOperation(World, r, op), r, "apply", value[r].v, FALSE, FALSE, NoArgs)

\* replicant.value = newValue: validated, enqueued as an 'overwrite' of the
\* root, then wrapped and stored with interception suspended
ValueSetter(W, r, nv) ==
    LET checked == IF schema[r] THEN Validate(W, r, Deep(nv, W.heap)) ELSE W
        queued == Enqueue(checked, r, Op(ROOT, "overwrite", <<>>, nv, <<>>))
    IN IF ~Ok(queued) THEN queued
       ELSE ResumeAfter(StoreValue(proxyRecursive(ignoreProxy(queued, r), r, nv, ROOT), r), r)

\* replicant.value = {} or replicant.value = []
SetValue(r, kind) ==
    /\ CanCall(r)
    /\ IsRef(value[r])
    /\ HasFreeId(World)
    /\ LET nid == NewId(World)
           W == [World EXCEPT !.heap[nid] = kind]
       IN Commit(ValueSetter(W, r, RawOf(nid)), r, "overwrite", value[r].v,
                 ~SchemaValidates(Deep(RawOf(nid), W.heap)), FALSE,
                 Args(<<>>, RawOf(nid), "overwrite", <<>>))

(***************************************************************************)
(* The flush cycle on the authoritative side.                              *)
(***************************************************************************)
\* a scheduled flush runs: steps 1 to 5, up to the point where the listeners
\* of the change event run
FlushStart(r) ==
    /\ ~BROWSER
    /\ scheduled[r] > 0
    /\ \A q \in Reps : ~emitting[q]
    /\ scheduled' = [scheduled EXCEPT ![r] = @ - 1]
    /\ IF operationQueue[r] = <<>>
       THEN /\ pendingFlush' = [pendingFlush EXCEPT ![r] = FALSE]
            /\ UNCHANGED <<operationQueue, revision, emitting, hist>>
       ELSE /\ operationQueue' = [operationQueue EXCEPT ![r] = <<>>]
            /\ revision' = [revision EXCEPT ![r] = NextRevision(@)]
            /\ emitting' = [emitting EXCEPT ![r] = TRUE]
            /\ hist' = [hist EXCEPT
                          !.flushes[r] = @ + 1,
                          !.broadcasts[r] = @ + 1,
                          !.changes[r] = @ + 1,
                          !.delivered[r] = @ + Len(operationQueue[r]),
                          !.batch[r] = [i \in DOMAIN operationQueue[r] |->
                                           Serialise(operationQueue[r][i], heap)],
                          !.replay[r] = hist.verdict[r]]
            /\ UNCHANGED pendingFlush
    /\ UNCHANGED <<heap, metadataMap, value, schema, validationErrors, oldValue,
                   ignoringProxy, BROWSER, steps, last>>
    /\ UNCHANGED apiVars
    /\ UNCHANGED sysVars

\* the listeners have returned: step 6
FlushEnd(r) ==
    /\ emitting[r]
    /\ emitting' = [emitting EXCEPT ![r] = FALSE]
    /\ pendingFlush' = [pendingFlush EXCEPT ![r] = FALSE]
    /\ UNCHANGED <<heap, metadataMap, value, schema, validationErrors, operationQueue,
                   scheduled, oldValue, revision, ignoringProxy, BROWSER, steps, last,
                   hist>>
    /\ UNCHANGED apiVars
    /\ UNCHANGED sysVars

Next ==
    \/ \E id \in UserTargets("B"), nv \in PrimValues \cup HeldProxies("B") :
          \E prop \in PropsOf(id) : ProxySet("B", id, prop, nv)
    \/ \E id \in UserTargets("B"), kind \in FreshKinds :
          \E prop \in PropsOf(id) : ProxySetFresh("B", id, prop, kind)
    \/ \E id \in UserTargets("B") : \E prop \in PropsOf(id) : ProxyDelete("B", id, prop)
    \/ \E id \in UserTargets("B"), call \in MutatorCalls("B") : ProxyMutator("B", id, call)
    \/ \E op \in RemoteOps("B") : ApplyOperation("B", op)
    \/ FlushStart("B")
    \/ FlushEnd("B")

Spec == Init /\ [][Next]_vars

\* a scheduled flush runs, and the listeners of a change event return
FairSpec == Spec /\ WF_vars(FlushStart("B")) /\ WF_vars(FlushEnd("B"))

\* writes and deletes through the Proxies, assignments of the whole value,
\* and the flush cycle
OverwriteNext ==
    \/ \E id \in UserTargets("B"), nv \in PrimValues :
          \E prop \in PropsOf(id) : ProxySet("B", id, prop, nv)
    \/ \E id \in UserTargets("B") : \E prop \in PropsOf(id) : ProxyDelete("B", id, prop)
    \/ \E kind \in FreshKinds : SetValue("B", kind)
    \/ FlushStart("B")
    \/ FlushEnd("B")

OverwriteSpec == Init /\ [][OverwriteNext]_vars

(***************************************************************************)
(* The constructor.                                                        *)
(***************************************************************************)
\* an option that is kept as it was given
KeepOption(given) == given

\* if (typeof opts.persistent === 'undefined') { opts.persistent = true }
DefaultPersistent(given) == IF given = Undef THEN Bool(TRUE) ELSE given

\* if (typeof opts.persistenceInterval === 'undefined') { ... = DEFAULT_PERSISTENCE_INTERVAL }
DefaultInterval(given) ==
    IF given = Undef THEN Num(DEFAULT_PERSISTENCE_INTERVAL) ELSE given

\* !name || typeof name !== 'string'
NotAName(name) == ~Truthy(name) \/ name.t # "str"

\* new Replicant(name, namespace, opts): the exception, or the fields of the
\* object the constructor and the field initialisers leave
Construct(name, namespace, o) ==
    IF NotAName(name) \/ NotAName(namespace)
    THEN [err |-> "Error", made |-> FALSE, name |-> Undef, namespace |-> Undef,
          opts |-> o, revision |-> 0, operationQueue |-> <<>>]
    ELSE [err |-> NoErr, made |-> TRUE, name |-> name, namespace |-> namespace,
          opts |-> [persistent |-> DefaultPersistent(o.persistent),
                    persistenceInterval |-> DefaultInterval(o.persistenceInterval)],
          revision |-> InitRevision, operationQueue |-> <<>>]

\* what callers pass as name and namespace, and as options
NameInputs == {Undef, Num(0), Num(2), EmptyStr, Str(1)}
PersistentInputs == {Undef, Bool(TRUE), Bool(FALSE)}
IntervalInputs == {Undef, Num(0), Num(50)}

MaxNew == 2

\* r = new Replicant(name, namespace, opts); a constructor that throws leaves
\* the replicant that was there
NewReplicant(r, name, namespace, o) ==
    /\ steps < MaxNew
    /\ steps' = steps + 1
    /\ LET c == Construct(name, namespace, o) IN
       /\ api' = Api("new", <<name, namespace, o, c.opts>>, c.err, c.made)
       /\ IF c.made
          THEN /\ opts' = [opts EXCEPT ![r] = c.opts]
               /\ revision' = [revision EXCEPT ![r] = c.revision]
               /\ operationQueue' = [operationQueue EXCEPT ![r] = c.operationQueue]
               /\ validationErrors' = [validationErrors EXCEPT ![r] = FALSE]
               /\ value' = [value EXCEPT ![r] = Undef]
               /\ status' = [status EXCEPT ![r] = "undeclared"]
               /\ listeners' = [listeners EXCEPT ![r] = <<>>]
          ELSE UNCHANGED <<opts, revision, operationQueue, validationErrors, value,
                           status, listeners>>
    /\ UNCHANGED <<heap, metadataMap, schema, pendingFlush, scheduled, oldValue,
                   ignoringProxy, BROWSER, emitting, last, hist, calls, registered>>
    /\ UNCHANGED sysVars

ConstructNext ==
    \E name \in NameInputs, namespace \in NameInputs :
        \E p \in PersistentInputs, i \in IntervalInputs :
            NewReplicant("B", name, namespace, [persistent |-> p, persistenceInterval |-> i])

ConstructSpec == Init /\ [][ConstructNext]_vars

(***************************************************************************)
(* The Replicator: the registry of declared replicants and findOrDeclare.  *)
(***************************************************************************)
MaxRegistrySteps == 3

NoReplicant == 0

\* the position of the replicant declared as (namespace, name), or NoReplicant
RECURSIVE FindFrom(_, _, _, _)
FindFrom(reg, namespace, name, i) ==
    IF i > Len(reg) THEN NoReplicant
    ELSE IF reg[i].namespace = namespace /\ reg[i].name = name THEN i
    ELSE FindFrom(reg, namespace, name, i + 1)

\* a registry in which nothing is ever found
FindNothing(reg, namespace, name) == NoReplicant

Find(reg, namespace, name) == FindFrom(reg, namespace, name, 1)

\* the replicant a declaration makes: constructed, given its initial value
\* (the default value, nothing being persisted) and declared
Declared(c, id, defaultValue) ==
    [id |-> id, name |-> c.name, namespace |-> c.namespace, opts |-> c.opts,
     revision |-> c.revision, value |-> defaultValue, status |-> "declared"]

\* replicator.findOrDeclare(name, namespace, opts): the existing replicant, or
\* a new one constructed, declared and registered
findOrDeclare(reg, name, namespace, o) ==
    LET found == Find(reg, namespace, name)
        c == Construct(name, namespace, o)
    IN IF found # NoReplicant THEN [reg |-> reg, err |-> NoErr, ret |-> reg[found].id]
       ELSE IF ~c.made THEN [reg |-> reg, err |-> c.err, ret |-> NoReplicant]
       ELSE [reg |-> Append(reg, Declared(c, Len(reg) + 1, o.defaultValue)),
             err |-> NoErr, ret |-> Len(reg) + 1]

RegistryFrame == UNCHANGED <<replicantVars, assets, sounds, wrap, socket>>

RegistryNames == {Str(1), Str(2), EmptyStr}
DefaultValues == {Undef, Num(2)}

FindOrDeclare(name, namespace, o) ==
    /\ steps < MaxRegistrySteps
    /\ steps' = steps + 1
    /\ registry' = findOrDeclare(registry, name, namespace, o).reg
    /\ api' = Api("findOrDeclare", <<name, namespace, o>>,
                  findOrDeclare(registry, name, namespace, o).err,
                  findOrDeclare(registry, name, namespace, o).ret)
    /\ RegistryFrame

\* a flush of a declared replicant after a turn that assigned its value
RegistryFlush(i, nv) ==
    /\ steps < MaxRegistrySteps
    /\ steps' = steps + 1
    /\ i \in DOMAIN registry
    /\ registry' = [registry EXCEPT ![i].revision = NextRevision(@), ![i].value = nv]
    /\ api' = Api("flush", <<i>>, NoErr, i)
    /\ RegistryFrame

RegistryNext ==
    \/ \E name \in RegistryNames, namespace \in RegistryNames :
          \E p \in PersistentInputs, d \in DefaultValues :
             FindOrDeclare(name, namespace,
                           [persistent |-> p, persistenceInterval |-> Undef,
                            defaultValue |-> d])
    \/ \E i \in 1..MaxRegistrySteps, nv \in PrimValues : RegistryFlush(i, nv)

RegistrySpec == Init /\ [][RegistryNext]_vars

(***************************************************************************)
(* proxyRecursive's registries: metadataMap (raw -> Metadata),             *)
(* proxyMetadataMap (Proxy -> Metadata) and proxySet, for composites       *)
(* without children.  A Metadata object is its position in records.        *)
(***************************************************************************)
\* the Metadata assertSingleOwner and proxyRecursive find for a value
MetadataOf(w, val) ==
    IF val.k = "proxy" /\ val.id \in w.proxySet THEN w.proxyMetadataMap[val.id]
    ELSE IF val.k = "raw" /\ w.metadataMap[val.id] # NoRecord THEN w.metadataMap[val.id]
    ELSE NoRecord

\* assertSingleOwner(replicant, value) returns without throwing
SingleOwner(w, replicant, val) ==
    MetadataOf(w, val) = NoRecord \/ w.records[MetadataOf(w, val)].replicant = replicant

\* the Proxy not yet allocated
NewProxy(w) == CHOOSE p \in ProxyIds : w.target[p] = 0 /\ \A q \in ProxyIds : w.target[q] = 0 => p <= q

\* the third branch: new Proxy(value, handler), registered in all three registries
WrapNew(w, replicant, val, path) ==
    [w EXCEPT !.target[NewProxy(w)] = val.id,
              !.proxySet = @ \cup {NewProxy(w)},
              !.records = Append(@, [replicant |-> replicant, path |-> path,
                                     proxy |-> NewProxy(w)]),
              !.metadataMap[val.id] = Len(w.records) + 1,
              !.proxyMetadataMap[NewProxy(w)] = Len(w.records) + 1,
              !.ret = ProxyVal(NewProxy(w)),
              !.made = 1]

\* a wrapper that makes a new Proxy whenever it is given a raw composite
WrapAgain(w, replicant, val, path) ==
    IF val.k = "raw" THEN WrapNew(w, replicant, val, path)
    ELSE [w EXCEPT !.records[MetadataOf(w, val)].path = path, !.ret = val]

\* the first two branches: the value is a Proxy, or a raw composite that has one
WrapFound(w, replicant, val, path) ==
    [w EXCEPT !.records[MetadataOf(w, val)].path = path,
              !.ret = IF val.k = "proxy" THEN val
                      ELSE ProxyVal(w.records[MetadataOf(w, val)].proxy)]

\* proxyRecursive(replicant, value, path) on a composite without children
Wrap(w, replicant, val, path) ==
    LET called == [w EXCEPT !.call = [replicant |-> replicant, value |-> val, path |-> path],
                            !.err = NoErr, !.ret = RawVal(0), !.made = 0]
    IN IF ~SingleOwner(w, replicant, val) THEN [called EXCEPT !.err = "CrossOwnership"]
       ELSE IF MetadataOf(w, val) # NoRecord THEN WrapFound(called, replicant, val, path)
       ELSE WrapNew(called, replicant, val, path)

WrapPaths == {ROOT, ChildPath(ROOT, KX)}

\* the values a caller holds: the raw composites and the Proxies made so far
WrapValues == {RawVal(id) : id \in RawIds} \cup {ProxyVal(p) : p \in wrap.proxySet}

ProxyRecursiveCall(replicant, val, path) ==
    /\ wrap' = Wrap(wrap, replicant, val, path)
    /\ UNCHANGED <<replicantVars, steps, api, registry, assets, sounds, socket>>

WrapNext ==
    \E replicant \in Reps, val \in WrapValues, path \in WrapPaths :
        ProxyRecursiveCall(replicant, val, path)

WrapSpec == Init /\ [][WrapNext]_vars

(***************************************************************************)
(* The AssetManager's watcher: the 'add', 'ready', 'change' and 'unlink'   *)
(* handlers, the sha1File callbacks and _resolveDeferreds, for the files   *)
(* of one category.  A Map is the sequence of its entries in insertion     *)
(* order; null is NullFile.                                                *)
(***************************************************************************)
Files == {"a.png", "b.png"}
Sums == {1, 2}
MaxEvents == 4
\* null, where an AssetFile is expected
NullFile == [url |-> "", sum |-> 0]

\* new AssetFile(filepath, sum)
AssetFile(filepath, sum) == [url |-> filepath, sum |-> sum]

MapHas(map, key) == \E i \in DOMAIN map : map[i].key = key

\* map.set(key, val): an existing key keeps its place
MapSet(map, key, val) ==
    IF MapHas(map, key)
    THEN [i \in DOMAIN map |-> IF map[i].key = key THEN [key |-> key, val |-> val] ELSE map[i]]
    ELSE Append(map, [key |-> key, val |-> val])

\* map.delete(key)
MapDelete(map, key) == SelectSeq(map, LAMBDA e : e.key # key)

\* deferredFiles.forEach(uploadedFile => ... rep.value.push(uploadedFile))
RECURSIVE PushDeferred(_, _)
PushDeferred(rep, map) ==
    IF map = <<>> THEN rep
    ELSE PushDeferred(IF map[1].val = NullFile THEN rep ELSE Append(rep, map[1].val),
                      Tail(map))

\* _resolveDeferreds(deferredFiles)
resolveDeferreds(am) ==
    IF \E i \in DOMAIN am.deferredFiles : am.deferredFiles[i].val = NullFile
    THEN am
    ELSE [am EXCEPT !.rep = PushDeferred(am.rep, am.deferredFiles),
                    !.published = @ \cup {am.deferredFiles[i].key : i \in DOMAIN am.deferredFiles},
                    !.deferredFiles = <<>>]

\* rep.value.findIndex(uf => uf.url === url), from 1; 0 when there is none
RECURSIVE FindIndexFrom(_, _, _)
FindIndexFrom(rep, url, i) ==
    IF i > Len(rep) THEN 0
    ELSE IF rep[i].url = url THEN i
    ELSE FindIndexFrom(rep, url, i + 1)

FindIndex(rep, url) == FindIndexFrom(rep, url, 1)

\* rep.value.splice(index, 1)
RemoveAt(rep, i) == SubSeq(rep, 1, i - 1) \o SubSeq(rep, i + 1, Len(rep))

\* the callback of sha1File in the 'add' handler; deferredFiles is a Map that
\* is never reassigned, so if (deferredFiles) always takes its first branch
AddHashed(am, filepath, err, sum) ==
    IF err THEN [am EXCEPT !.deferredFiles = MapDelete(@, filepath)]
    ELSE resolveDeferreds([am EXCEPT
             !.deferredFiles = MapSet(@, filepath, AssetFile(filepath, sum)),
             !.hashed = @ \cup {filepath}])

\* the callback of sha1File in the 'change' handler
ChangeHashed(am, filepath, err, sum) ==
    IF err THEN am
    ELSE IF FindIndex(am.rep, filepath) > 0
    THEN [am EXCEPT !.rep[FindIndex(am.rep, filepath)] = AssetFile(filepath, sum)]
    ELSE [am EXCEPT !.rep = Append(@, AssetFile(filepath, sum))]

AssetFrame == UNCHANGED <<replicantVars, steps, api, registry, sounds, wrap, socket>>

\* watcher.on('add', ...): a file the watcher has not reported yet
WatcherAdd(filepath) ==
    /\ assets.events < MaxEvents
    /\ filepath \notin assets.onDisk
    /\ assets' = [assets EXCEPT
                     !.events = @ + 1,
                     !.onDisk = @ \cup {filepath},
                     !.unlinked = @ \ {filepath},
                     !.deferredFiles = IF assets.ready THEN @ ELSE MapSet(@, filepath, NullFile),
                     !.hashing = Append(@, [event |-> "add", filepath |-> filepath])]
    /\ AssetFrame

\* watcher.on('ready', ...)
WatcherReady ==
    /\ ~assets.ready
    /\ assets' = [assets EXCEPT !.ready = TRUE]
    /\ AssetFrame

\* watcher.on('change', ...): debounceName(filepath, ...) starts, or restarts,
\* the timer of that name
WatcherChange(filepath) ==
    /\ assets.events < MaxEvents
    /\ filepath \in assets.onDisk
    /\ assets' = [assets EXCEPT !.events = @ + 1, !.debounced = @ \cup {filepath}]
    /\ AssetFrame

\* the debounce timer of a name fires: sha1File(filepath, ...) is called
DebounceFire(filepath) ==
    /\ filepath \in assets.debounced
    /\ assets' = [assets EXCEPT
                     !.debounced = @ \ {filepath},
                     !.hashing = Append(@, [event |-> "change", filepath |-> filepath])]
    /\ AssetFrame

\* watcher.on('unlink', ...): the first entry with the file's url is removed
WatcherUnlink(filepath) ==
    /\ assets.events < MaxEvents
    /\ filepath \in assets.onDisk
    /\ assets' = [assets EXCEPT
                     !.events = @ + 1,
                     !.onDisk = @ \ {filepath},
                     !.unlinked = @ \cup {filepath},
                     !.rep = IF FindIndex(@, filepath) > 0
                             THEN RemoveAt(@, FindIndex(@, filepath)) ELSE @]
    /\ AssetFrame

\* a sha1File call completes, with an error or with a sum
HashDone(i, err, sum) ==
    /\ i \in DOMAIN assets.hashing
    /\ LET call == assets.hashing[i]
           rest == [assets EXCEPT !.hashing = RemoveAt(@, i)]
       IN assets' = IF call.event = "add" THEN AddHashed(rest, call.filepath, err, sum)
                    ELSE ChangeHashed(rest, call.filepath, err, sum)
    /\ AssetFrame

HashCompletes == \E i \in 1..MaxEvents, err \in BOOLEAN, sum \in Sums : HashDone(i, err, sum)

TimerFires == \E filepath \in Files : DebounceFire(filepath)

AssetNext ==
    \/ \E filepath \in Files : WatcherAdd(filepath)
    \/ WatcherReady
    \/ \E filepath \in Files : WatcherChange(filepath)
    \/ \E filepath \in Files : WatcherUnlink(filepath)
    \/ TimerFires
    \/ HashCompletes

AssetSpec == Init /\ [][AssetNext]_vars

\* every sha1File call completes, every debounce timer fires, and the watcher
\* finishes its first scan
FairAssetSpec ==
    AssetSpec /\ WF_vars(HashCompletes) /\ WF_vars(TimerFires) /\ WF_vars(WatcherReady)

(***************************************************************************)
(* SoundsLib: the soundCues replicant of one bundle, reconciled with the   *)
(* bundle's manifest by the constructor.  A cue file is a record; null is  *)
(* NoFile.                                                                 *)
(***************************************************************************)
NoFile == [present |-> FALSE, cue |-> "", path |-> Undef, default |-> FALSE,
           assignable |-> "absent"]

\* the CueFile _makeCuesRepDefaultValue builds for the default file of a cue:
\* sum, base, ext and name come from the path, the url from the cue's name
DefaultCueFile(name, path) ==
    [present |-> TRUE, cue |-> name, path |-> path, default |-> TRUE,
     assignable |-> "absent"]

DefaultVolume == 30

\* one element of _makeCuesRepDefaultValue's result
FormatCue(rawCue) ==
    LET file == IF Truthy(rawCue.defaultFile)
                THEN DefaultCueFile(rawCue.name, rawCue.defaultFile) ELSE NoFile
    IN [name |-> rawCue.name,
        defaultVolume |-> rawCue.defaultVolume,
        assignable |-> Truthy(rawCue.assignable),
        volume |-> IF rawCue.defaultVolume = Undef THEN DefaultVolume
                   ELSE rawCue.defaultVolume.v,
        file |-> file,
        defaultFile |-> file]

\* _makeCuesRepDefaultValue(bundle)
makeCuesRepDefaultValue(soundCues) == [i \in DOMAIN soundCues |-> FormatCue(soundCues[i])]

\* a filter that keeps every persisted cue
KeepEveryCue(defaults, persistedCue) == TRUE

\* defaultCuesRepValue.find(defaultCue => defaultCue.name === persistedCue.name)
InManifest(defaults, persistedCue) ==
    \E i \in DOMAIN defaults : defaults[i].name = persistedCue.name

\* cuesRep.value.findIndex(persistedCue => persistedCue.name === name), from 1
RECURSIVE FindCueFrom(_, _, _)
FindCueFrom(cues, name, i) ==
    IF i > Len(cues) THEN 0
    ELSE IF cues[i].name = name THEN i
    ELSE FindCueFrom(cues, name, i + 1)

\* {...clone(defaultCue.defaultFile), assignable: Boolean(defaultCue.assignable)}
SelectedFile(defaultCue) ==
    [defaultCue.defaultFile EXCEPT
        !.assignable = IF defaultCue.assignable THEN "true" ELSE "false"]

\* the body of defaultCuesRepValue.forEach for one default cue
UpdateOrPush(cues, defaultCue) ==
    LET existingIndex == FindCueFrom(cues, defaultCue.name, 1) IN
    IF existingIndex > 0
    THEN [cues EXCEPT
            ![existingIndex].assignable = defaultCue.assignable,
            ![existingIndex].defaultFile = defaultCue.defaultFile,
            ![existingIndex].file =
                IF ~defaultCue.assignable /\ defaultCue.defaultFile.present
                THEN SelectedFile(defaultCue) ELSE @]
    ELSE Append(cues, defaultCue)

RECURSIVE UpdateAll(_, _)
UpdateAll(cues, defaults) ==
    IF defaults = <<>> THEN cues
    ELSE UpdateAll(UpdateOrPush(cues, defaults[1]), Tail(defaults))

\* the value of the soundCues replicant after the constructor's reconciliation
Reconcile(persisted, defaults) ==
    IF Len(persisted) > 0
    THEN UpdateAll(SelectSeq(persisted, LAMBDA cue : InManifest(defaults, cue)), defaults)
    ELSE defaults

\* the cues of bundle manifests and of persisted replicants
CueNames == {"c1", "c2", "c3"}
CuePath == Str(1)

RawCues ==
    [name : CueNames, assignable : {Undef, Bool(TRUE), Bool(FALSE)},
     defaultVolume : {Undef, Num(0)}, defaultFile : {Undef, CuePath}]

UserFile(name) ==
    [present |-> TRUE, cue |-> name, path |-> Str(2), default |-> FALSE,
     assignable |-> "absent"]

PersistedCues ==
    UNION {[name : {n}, defaultVolume : {Undef}, assignable : BOOLEAN, volume : {80},
            file : {UserFile(n)}, defaultFile : {NoFile}] : n \in CueNames}

\* lists of at most two cues with different names
CueLists(cues) ==
    {<<>>} \cup {<<c>> : c \in cues}
           \cup {pair \in cues \X cues : pair[1].name # pair[2].name}

\* new SoundsLib([bundle], replicator) for a bundle with these soundCues,
\* whose soundCues replicant was persisted with this value
ConstructSoundsLib(soundCues, persisted) ==
    /\ sounds' = [made |-> TRUE, declared |-> Len(soundCues) > 0,
                  manifest |-> soundCues, persisted |-> persisted,
                  value |-> IF Len(soundCues) > 0
                            THEN Reconcile(persisted, makeCuesRepDefaultValue(soundCues))
                            ELSE <<>>]
    /\ UNCHANGED <<replicantVars, steps, api, registry, assets, wrap, socket>>

SoundsNext ==
    /\ ~sounds.made
    /\ \E soundCues \in CueLists(RawCues), persisted \in CueLists(PersistedCues) :
           ConstructSoundsLib(soundCues, persisted)

SoundsSpec == Init /\ [][SoundsNext]_vars

(***************************************************************************)
(* The socket middleware: the 'joinRoom' handler.                          *)
(***************************************************************************)

\* the 'joinRoom' requests one socket makes in a behaviour
MaxRequests == 3

\* what the callback is given
RoomError == "Room must be a string"
CbNull == "null"

\* typeof room === 'string'
IsStringRoom(room) == room.t = "str"

\* a handler that never finds the room among the socket's rooms
NeverIncluded(s, room) == FALSE

\* Object.keys(socket.rooms).includes(room)
RoomsInclude(s, room) == room \in s.rooms

\* socket.join(room): the join is issued; the library, which is not part of
\* the sources, shows the room in socket.rooms either at once or in a
\* callback of its own
Join(s, room, atOnce) ==
    [s EXCEPT !.joins = Append(@, room),
              !.rooms = IF atOnce THEN @ \cup {room} ELSE @,
              !.joining = IF atOnce THEN @ ELSE @ \cup {room}]

\* cb(arg)
Callback(s, arg) == [s EXCEPT !.callbacks = Append(@, arg)]

\* the handler of 'joinRoom'
joinRoom(s, room, atOnce) ==
    IF ~IsStringRoom(room)
    THEN Callback(s, RoomError)
    ELSE LET joined == IF ~RoomsInclude(s, room) THEN Join(s, room, atOnce) ELSE s
         IN  Callback(joined, CbNull)

SocketFrame == UNCHANGED <<replicantVars, steps, api, registry, assets, sounds, wrap>>

\* the rooms a client asks for: strings, and values that are not strings
RoomInputs == {Str(1), Str(2), Num(1), Undef}

\* the client emits 'joinRoom' with a room and a callback
JoinRoom(room, atOnce) ==
    /\ Len(socket.requests) < MaxRequests
    /\ socket' = [joinRoom(socket, room, atOnce) EXCEPT !.requests = Append(@, room)]
    /\ SocketFrame

\* the library's callback of a join: socket.rooms shows the room
JoinRecorded ==
    /\ socket.joining # {}
    /\ \E room \in socket.joining :
           socket' = [socket EXCEPT !.rooms = @ \cup {room}, !.joining = @ \ {room}]
    /\ SocketFrame

SocketNext ==
    \/ \E room \in RoomInputs, atOnce \in BOOLEAN : JoinRoom(room, atOnce)
    \/ JoinRecorded

SocketSpec == Init /\ [][SocketNext]_vars /\ WF_vars(JoinRecorded)

(***************************************************************************)
(* The 'change' listeners and validate.                                    *)
(***************************************************************************)
MaxApiSteps == 4

\* listener(...args)
Invoke(c, fn, args) == [c EXCEPT ![fn] = Append(@, args)]

\* an emitter without the hook
NoHook(c, st, fn, val) == c

\* this.on('newListener', ...): a new 'change' listener of a declared replicant
\* is invoked at once with the value
NewListenerHook(c, st, fn, val) ==
    IF st = "declared" THEN Invoke(c, fn, <<val>>) ELSE c

\* EventEmitter.on: 'newListener' is emitted, then the listener is appended
EmitterOn(E, st, fn, val, once) ==
    [listeners |-> Append(E.listeners, [fn |-> fn, once |-> once]),
     calls |-> NewListenerHook(E.calls, st, fn, val)]

\* EventEmitter.once, bound as originalOnce
OriginalOnce(E, st, fn, val) == EmitterOn(E, st, fn, val, TRUE)

\* a once that is not overridden
PlainOnce(E, st, fn, val) == OriginalOnce(E, st, fn, val)

\* this.once as the constructor overrides it
Once(E, st, fn, val) ==
    IF st = "declared" THEN [E EXCEPT !.calls = Invoke(@, fn, <<val>>)]
    ELSE OriginalOnce(E, st, fn, val)

\* EventEmitter.emit: every listener is invoked, one-shot listeners are removed
Emit(E, args) ==
    [listeners |-> SelectSeq(E.listeners, LAMBDA l : ~l.once),
     calls |-> [fn \in Fns |->
                  IF \E i \in DOMAIN E.listeners : E.listeners[i].fn = fn
                  THEN Append(E.calls[fn], args) ELSE E.calls[fn]]]

Emitter(r) == [listeners |-> listeners[r], calls |-> calls]

\* what a call on the emitter leaves
ApiCommit(r, E, call) ==
    /\ steps < MaxApiSteps
    /\ steps' = steps + 1
    /\ listeners' = [listeners EXCEPT ![r] = E.listeners]
    /\ calls' = E.calls
    /\ api' = call

ApiFrame ==
    /\ UNCHANGED <<heap, metadataMap, schema, operationQueue, pendingFlush, scheduled,
                   oldValue, revision, ignoringProxy, BROWSER, emitting, last, hist, opts>>
    /\ UNCHANGED sysVars

\* replicant.on('change', fn)
OnChange(r, fn) ==
    /\ registered[fn].how = "no"
    /\ ApiCommit(r, EmitterOn(Emitter(r), status[r], fn, value[r], FALSE),
                 Api("on", <<fn>>, NoErr, TRUE))
    /\ registered' = [registered EXCEPT ![fn] =
                         [how |-> "on", status |-> status[r], value |-> value[r]]]
    /\ ApiFrame
    /\ UNCHANGED <<value, status, validationErrors>>

\* replicant.once('change', fn)
OnceChange(r, fn) ==
    /\ registered[fn].how = "no"
    /\ ApiCommit(r, Once(Emitter(r), status[r], fn, value[r]),
                 Api("once", <<fn>>, NoErr, TRUE))
    /\ registered' = [registered EXCEPT ![fn] =
                         [how |-> "once", status |-> status[r], value |-> value[r]]]
    /\ ApiFrame
    /\ UNCHANGED <<value, status, validationErrors>>

\* the status changes
SetStatus(r, st) ==
    /\ st # status[r]
    /\ ApiCommit(r, Emitter(r), Api("status", <<st>>, NoErr, TRUE))
    /\ status' = [status EXCEPT ![r] = st]
    /\ ApiFrame
    /\ UNCHANGED <<value, registered, validationErrors>>

\* the value becomes nv and emit('change', newValue, oldValue, operations)
EmitChange(r, nv) ==
    /\ ApiCommit(r, Emit(Emitter(r), <<nv, value[r], <<>>>>),
                 Api("emit", <<nv, value[r], <<>>>>, NoErr, TRUE))
    /\ value' = [value EXCEPT ![r] = nv]
    /\ ApiFrame
    /\ UNCHANGED <<status, registered, validationErrors>>

\* validate as the class defines it: the stub
StubValidator(r, candidate, throwOnInvalid) ==
    [ret |-> TRUE, err |-> NoErr, verr |-> validationErrors[r]]

\* a validator that accepts everything
AcceptAll(r, candidate, throwOnInvalid) == StubValidator(r, candidate, throwOnInvalid)

\* the function _generateValidator returns; value defaults to this.value
GeneratedValidator(r, candidate, throwOnInvalid) ==
    IF SchemaValidates(IF candidate = Undef THEN Deep(value[r], heap) ELSE candidate)
    THEN [ret |-> TRUE, err |-> NoErr, verr |-> validationErrors[r]]
    ELSE [ret |-> FALSE, err |-> IF throwOnInvalid THEN "SchemaError" ELSE NoErr,
          verr |-> TRUE]

\* replicant.validate: the generated validator when there is a schema
validate(r, candidate, throwOnInvalid) ==
    IF schema[r] THEN GeneratedValidator(r, candidate, throwOnInvalid)
    ELSE StubValidator(r, candidate, throwOnInvalid)

\* the candidates validate is called with; Undef is the call without a value
Candidates ==
    {Undef, Num(2), Obj(EmptyFcn), Obj(KC :> Str(1)), Obj(KC :> Num(2)),
     Obj((KC :> Num(0)) @@ (KL :> Arr(<<Str(1)>>)))}

\* replicant.validate(candidate, {throwOnInvalid})
ValidateCall(r, candidate, throwOnInvalid) ==
    /\ ApiCommit(r, Emitter(r),
                 Api("validate", <<candidate, throwOnInvalid>>,
                     validate(r, candidate, throwOnInvalid).err,
                     validate(r, candidate, throwOnInvalid).ret))
    /\ validationErrors' =
          [validationErrors EXCEPT ![r] = validate(r, candidate, throwOnInvalid).verr]
    /\ ApiFrame
    /\ UNCHANGED <<value, status, registered>>

ApiNext ==
    \/ \E fn \in Fns : OnChange("B", fn)
    \/ \E fn \in Fns : OnceChange("B", fn)
    \/ \E st \in {"undeclared", "declaring", "declared"} : SetStatus("B", st)
    \/ \E nv \in PrimValues : EmitChange("B", nv)
    \/ \E candidate \in Candidates, throwOnInvalid \in BOOLEAN :
          ValidateCall("B", candidate, throwOnInvalid)

ApiSpec == Init /\ [][ApiNext]_vars

(***************************************************************************)
(* The properties.  last describes the most recent call (its kind, the     *)
(* error it threw, the operations it enqueued, the value before and after  *)
(* it); hist accumulates what the flushes delivered.                       *)
(***************************************************************************)
TrapCall == last.kind \in {"set", "delete", "mutator"}

\* C1: on the authoritative side, after any sequence of accepted proxy
\* mutations (no call threw, no remote operation was applied), replaying the
\* flushed batch with _applyOperation on a fresh replicant that starts from a
\* deep copy of the pre-batch value gives a value deep-equal to the mutated one.
ReplayEquivalence ==
    (~BROWSER /\ hist.clean) => hist.replay["B"] # "differs"

\* C2: on a replicant with a schema, a write, delete or mutator call through
\* the proxy whose result would fail validation throws, enqueues no operation
\* and leaves the value deep-equal to the value before the call (no call
\* changes the revision).
SchemaRejectionLeavesNoTrace ==
    (TrapCall /\ schema[last.rep] /\ last.invalid)
        => (last.err # NoErr /\ last.ops = <<>> /\ last.post = last.pre)

\* C3: the value of a replicant with a schema validates against the schema in
\* every state reachable by proxy writes, deletes, mutator calls and
\* _applyOperation calls, throwing ones included.
SchemaConformance ==
    \A r \in Reps : schema[r] => SchemaValidates(Deep(value[r], heap))

\* C4: assigning a composite that belongs to replicant A's value tree into
\* replicant B's value (by a write or as a mutator argument) fails with the
\* cross-ownership error.  A write the schema gate rejects first is left out.
CrossOwnershipRejected ==
    (last.kind \in {"set", "mutator"} /\ last.foreign
        /\ ~(schema[last.rep] /\ last.invalid))
        => last.err = "CrossOwnership"

\* C5: a call that fails with the cross-ownership error leaves the target
\* replicant as it was: its value deep-equal to the value before the call and
\* no operation enqueued for the rejected call.
CrossOwnershipNoStateChange ==
    last.err = "CrossOwnership" => (last.post = last.pre /\ last.ops = <<>>)

\* C6: the path of the operation a proxy trap emits, split on '/' with '~1'
\* replaced by '/' in each segment, is a key sequence that leads from the root
\* of the replicant's value to the node the mutation acted on.
PathDecoding ==
    (TrapCall /\ last.ops # <<>>)
        => pathStrToPathArr(last.ops[1].path) \in last.keyPaths

\* C7: outside a call of _applyOperation or of a mutator wrapper no replicant
\* is in the suspended set, whether the call returned or threw.
SuspensionReleased == ignoringProxy = {}

\* C8: revision starts at 0, never decreases and equals the number of flushes
\* that carried at least one operation, each of which broadcasts once and emits
\* one change event; a flush of an empty queue changes none of the three.
RevisionStep(r) ==
    /\ revision'[r] \in {revision[r], revision[r] + 1}
    /\ (scheduled'[r] < scheduled[r] /\ operationQueue[r] = <<>>)
          => /\ revision'[r] = revision[r]
             /\ hist'.broadcasts[r] = hist.broadcasts[r]
             /\ hist'.changes[r] = hist.changes[r]

BatchingAndOrder ==
    /\ [](\A r \in Reps : scheduled[r] <= 1 /\ hist.changes[r] = hist.flushes[r])
    /\ \A r \in Reps : (~BROWSER /\ operationQueue[r] # <<>>) ~> (operationQueue[r] = <<>>)

\* C10: an operation enqueued by a change listener while the flush is emitting
\* is delivered by a later flush, which raises the revision once more.
ReentrantMutation ==
    \A r \in Reps :
        \A n \in 0..MaxSteps :
            (emitting[r] /\ operationQueue[r] # <<>> /\ revision[r] = n)
                ~> (operationQueue[r] = <<>> /\ revision[r] > n)

\* where a run that breaks C10 comes to rest: the flush has ended, the listener's
\* operation is in the queue, and no flush is scheduled to deliver it
ReentrantStranded ==
    /\ ~BROWSER
    /\ ~emitting["B"]
    /\ ~pendingFlush["B"]
    /\ scheduled["B"] = 0
    /\ operationQueue["B"] # <<>>
    /\ ~ENABLED (FlushStart("B") \/ FlushEnd("B"))

\* a write through a proxy of the replicant's own tree that the trap did not
\* ignore: interception was active, the value written differs from the value
\* held, and the call returned
AcceptedWrite ==
    /\ last.kind = "set"
    /\ last.owner = last.rep
    /\ ~last.suspended
    /\ last.held # last.call.nv
    /\ last.err = NoErr

\* C13: an accepted write of newValue to property p of the composite stored at
\* path P enqueues exactly one operation; its path is P (it decodes to a key
\* sequence that leads to the composite), its prop is p, its newValue is the
\* value written, its method is 'update' if p was an own property and 'add'
\* otherwise; on the authoritative side the property then holds the new value.
WriteOperationShape ==
    AcceptedWrite =>
        /\ Len(last.ops) = 1
        /\ pathStrToPathArr(last.ops[1].path) \in last.keyPaths
        /\ last.ops[1].prop = last.call.prop
        /\ last.ops[1].newValue = last.call.nv
        /\ last.ops[1].method = (IF last.hadOwn THEN "update" ELSE "add")
        /\ (~BROWSER => last.now = last.given)

\* C14: writing a primitive to the new key "a/b" of the root of the value
\* emits exactly the operation {path: "/a~1b", method: "add", args: {prop:
\* "a/b", newValue}}: the path names the written key, with "/" escaped as "~1".
KeyEscapingScenario ==
    (AcceptedWrite /\ last.path = ROOT /\ last.call.prop = KAB /\ ~last.hadOwn
        /\ ~IsRef(last.call.nv))
        => last.ops = <<Op(<<SLASH>> \o EscapeKey(KAB), "add", KAB, last.call.nv, <<>>)>>

\* a call of an array mutator through a proxy of the replicant's own tree, with
\* interception active, that returned
AcceptedMutatorCall ==
    /\ last.kind = "mutator"
    /\ last.owner = last.rep
    /\ ~last.suspended
    /\ last.err = NoErr

\* the last key of a path ("xs" for "/xs")
LastKey(path) == LET arr == pathStrToPathArr(path) IN IF arr = <<>> THEN <<>> ELSE arr[Len(arr)]

\* C15: a call of an array mutator enqueues exactly one operation {path, method,
\* args: {prop, mutatorArgs}}: path is the path of the array, method names the
\* mutator, prop is the key of the array (the last key of path) and mutatorArgs
\* are the call's arguments; on the authoritative side the array is then what
\* the mutator makes of it.
ArrayMutatorScenario ==
    AcceptedMutatorCall =>
        /\ Len(last.ops) = 1
        /\ pathStrToPathArr(last.ops[1].path) \in last.keyPaths
        /\ last.ops[1].method = last.call.method
        /\ last.ops[1].prop = LastKey(last.ops[1].path)
        /\ last.ops[1].margs = last.call.margs
        /\ (~BROWSER => last.now = Arr(ArrMutate(last.was.v, last.call.method, last.givenArgs)))

\* C16: a write of a value strictly equal to the value the raw target holds for
\* the property returns true, enqueues nothing, validates nothing (no error is
\* thrown or stored), schedules no flush and leaves the value as it was,
\* whether or not interception is suspended; no call changes the revision.
StrictEqualWriteIsNoOp ==
    (last.kind = "set" /\ last.held = last.call.nv)
        => /\ last.err = NoErr
           /\ last.ret = TRUE
           /\ last.ops = <<>>
           /\ last.post = last.pre
           /\ last.postSched = last.preSched
           /\ last.postVerr = last.preVerr

\* a strict-equal write was made to a property that holds a value, with
\* interception active
StrictEqualWriteWitness ==
    last.kind = "set" /\ last.held = last.call.nv /\ last.held # Undef /\ ~last.suspended

\* a call that has something to do: a write of a different value, a delete of
\* an own property, any mutator call
Effective ==
    \/ last.kind = "set" /\ last.held # last.call.nv
    \/ last.kind = "delete" /\ last.hadOwn
    \/ last.kind = "mutator"

\* C17: on the subscriber side, with interception active, a write, a delete and
\* a mutator call through the proxy leave the value tree as it was, and each
\* call that has something to do and returns has enqueued its one operation.
SubscriberNeverMutatesLocally ==
    (BROWSER /\ TrapCall /\ last.owner = last.rep /\ ~last.suspended)
        => /\ last.post = last.pre
           /\ (Effective /\ last.err = NoErr)
                 => (Len(last.ops) = 1 /\ last.ops[1].method \in
                        (IF last.kind = "set" THEN {"add", "update"}
                         ELSE IF last.kind = "delete" THEN {"delete"}
                         ELSE {last.call.method}))

\* on the subscriber side a delete of an own property has enqueued its operation
SubscriberDeleteWitness ==
    /\ BROWSER /\ last.kind = "delete" /\ last.owner = last.rep /\ ~last.suspended
    /\ last.hadOwn /\ last.err = NoErr /\ Len(last.ops) = 1

\* C18: a delete through a proxy of the replicant's own tree.  Suspended: the
\* property is gone and nothing is enqueued.  Active, not an own property: the
\* call succeeds, enqueues nothing and changes nothing.  Active, own property,
\* accepted: exactly one 'delete' operation with the container's path and the
\* prop, the property is gone on the authoritative side, and the call reports
\* success on both sides.
DeleteThroughProxy ==
    (last.kind = "delete" /\ last.owner = last.rep) =>
        /\ last.suspended => (last.ops = <<>> /\ last.now = Undef)
        /\ (~last.suspended /\ ~last.hadOwn)
              => (last.err = NoErr /\ last.ret = TRUE /\ last.ops = <<>>
                  /\ last.post = last.pre)
        /\ (~last.suspended /\ last.hadOwn /\ last.err = NoErr)
              => /\ Len(last.ops) = 1
                 /\ last.ops[1].method = "delete"
                 /\ last.ops[1].prop = last.call.prop
                 /\ pathStrToPathArr(last.ops[1].path) \in last.keyPaths
                 /\ (~BROWSER => last.now = Undef)
                 /\ last.ret = TRUE

\* the step is an emission of the change event
EmissionStep == steps' # steps /\ api'.kind = "emit"

\* C11: a listener registered with once('change') is invoked at most once in
\* total; registered while the status is 'declared' it has been invoked once,
\* with the value of that moment, and no later change invokes it, while every
\* persistent listener registered before a change is invoked by that change.
OneShotInvokedOnce ==
    \A fn \in Fns :
        registered[fn].how = "once"
            => /\ Len(calls[fn]) <= 1
               /\ registered[fn].status = "declared"
                     => calls[fn] = <<<<registered[fn].value>>>>

PersistentInvokedByChange ==
    EmissionStep
        => \A fn \in Fns :
              registered[fn].how = "on" => calls'[fn] = Append(calls[fn], api'.args)

OneShotChangeListener == []OneShotInvokedOnce /\ [][PersistentInvokedByChange]_vars

\* a change was emitted after a one-shot listener was registered on a declared
\* replicant and a persistent listener was registered: the first has its one
\* invocation, the second was invoked by the change
OneShotWitness ==
    /\ api.kind = "emit"
    /\ \E fn \in Fns, gn \in Fns :
          /\ registered[fn].how = "once" /\ registered[fn].status = "declared"
          /\ Len(calls[fn]) = 1
          /\ registered[gn].how = "on"
          /\ calls[gn] # <<>> /\ calls[gn][Len(calls[gn])] = api.args

\* C12: the step that registers an on('change') listener invokes it exactly
\* once, with the current value as the only argument, when the status is
\* 'declared', and does not invoke it when the status is 'undeclared' or
\* 'declaring'; after that only the emission of a change invokes it.
ImmediateInitialNotification ==
    [][\A fn \in Fns :
          /\ (registered[fn].how = "no" /\ registered'[fn].how = "on")
                => calls'[fn] = (IF status["B"] = "declared" THEN <<<<value["B"]>>>> ELSE <<>>)
          /\ (registered[fn].how = "on" /\ ~EmissionStep) => calls'[fn] = calls[fn]]_vars

\* one listener was registered on a declared replicant and invoked with the
\* value; another was registered on a replicant not yet declared and has not
\* been invoked
ImmediateNotificationWitness ==
    \E fn \in Fns, gn \in Fns :
        /\ registered[fn].how = "on" /\ registered[fn].status = "declared"
        /\ calls[fn] = <<<<registered[fn].value>>>>
        /\ registered[gn].how = "on" /\ registered[gn].status # "declared"
        /\ calls[gn] = <<>>

\* the candidate a call of validate checks
Checked(candidate) == IF candidate = Undef THEN Deep(value["B"], heap) ELSE candidate

\* C19: without a schema validate returns true; with a schema and
\* throwOnInvalid false it never throws, returns true exactly when the
\* candidate satisfies the schema and on failure stores the errors; with
\* throwOnInvalid true an invalid candidate makes it throw after storing the
\* errors; validate never changes the value, the operation queue or the revision.
ValidateResult ==
    api.kind = "validate" =>
        /\ ~schema["B"] => (api.err = NoErr /\ api.ret = TRUE)
        /\ (schema["B"] /\ ~api.args[2])
              => /\ api.err = NoErr
                 /\ api.ret = SchemaValidates(Checked(api.args[1]))
                 /\ ~api.ret => validationErrors["B"]
        /\ (schema["B"] /\ api.args[2])
              => IF SchemaValidates(Checked(api.args[1]))
                 THEN api.err = NoErr /\ api.ret = TRUE
                 ELSE api.err = "SchemaError" /\ validationErrors["B"]

ValidateFrame ==
    (steps' # steps /\ api'.kind = "validate")
        => UNCHANGED <<value, heap, operationQueue, revision>>

ValidateContract == []ValidateResult /\ [][ValidateFrame]_vars

\* validate was called on a replicant with a schema, with throwOnInvalid false
\* and a candidate that fails the schema; it returned false and stored the errors
ValidateWitness ==
    /\ api.kind = "validate" /\ schema["B"] /\ ~api.args[2]
    /\ ~SchemaValidates(Checked(api.args[1]))
    /\ api.ret = FALSE /\ api.err = NoErr /\ validationErrors["B"]

\* a name or a namespace the constructor must refuse: empty, or not a string
EmptyOrNotString(name) == name.t # "str" \/ name = EmptyStr

\* C20: the constructor fails and yields no replicant when the name or the
\* namespace is empty or not a string; otherwise the replicant has revision 0,
\* an empty operation queue, persistent = true and persistenceInterval = 100
\* where the option was not given, and the option values that were given.
DeclarationArguments ==
    api.kind = "new" =>
        IF EmptyOrNotString(api.args[1]) \/ EmptyOrNotString(api.args[2])
        THEN api.err # NoErr /\ api.ret = FALSE
        ELSE /\ api.err = NoErr /\ api.ret = TRUE
             /\ revision["B"] = 0
             /\ operationQueue["B"] = <<>>
             /\ opts["B"].persistent =
                   (IF api.args[3].persistent = Undef THEN Bool(TRUE)
                    ELSE api.args[3].persistent)
             /\ opts["B"].persistenceInterval =
                   (IF api.args[3].persistenceInterval = Undef THEN Num(100)
                    ELSE api.args[3].persistenceInterval)

\* a replicant was constructed with persistent given as false and no interval
DeclarationWitness ==
    /\ api.kind = "new" /\ api.ret = TRUE
    /\ api.args[3].persistent = Bool(FALSE) /\ api.args[3].persistenceInterval = Undef
    /\ opts["B"] = [persistent |-> Bool(FALSE), persistenceInterval |-> Num(100)]

\* the place named by path a is the place named by path b or lies below it
Under(a, b) ==
    LET pa == pathStrToPathArr(a)
        pb == pathStrToPathArr(b)
    IN Len(pb) <= Len(pa) /\ SubSeq(pa, 1, Len(pb)) = pb

\* C21: a flushed batch holds no operation that precedes an 'overwrite' of
\* the subtree its own path lies in (the enqueue of the overwrite removed it)
OverwriteTruncation ==
    \A r \in Reps : \A i, j \in DOMAIN hist.batch[r] :
        (i < j /\ hist.batch[r][j].method = "overwrite")
            => ~Under(hist.batch[r][i].path, hist.batch[r][j].path)

\* C22: a findOrDeclare of an already declared (namespace, name) returns the
\* replicant the first declaration returned and changes no replicant; the
\* registry never holds two replicants for one (namespace, name)
DeclaredOnce ==
    \A i, j \in DOMAIN registry :
        (registry[i].namespace = registry[j].namespace /\ registry[i].name = registry[j].name)
            => i = j

SecondDeclareStep ==
    (api'.kind = "findOrDeclare" /\ steps' = steps + 1
        /\ Find(registry, api'.args[2], api'.args[1]) # NoReplicant)
        => /\ registry' = registry
           /\ api'.err = NoErr
           /\ api'.ret = registry[Find(registry, api'.args[2], api'.args[1])].id

Interposed(val, r) ==
    IsRef(val) => /\ val.t = "proxy"
                  /\ metadataMap[val.v] # NoMeta
                  /\ metadataMap[val.v].replicant = r

\* C23: on the authoritative side every composite reachable from the value
\* is stored as a Proxy whose metadata names the replicant as owner
FullInterposition ==
    ~BROWSER =>
        /\ Interposed(value["B"], "B")
        /\ \A id \in ReachIds(value["B"], heap) :
              \A i \in DOMAIN OwnKeys(heap[id]) :
                  Interposed(GetProp(heap[id], OwnKeys(heap[id])[i]), "B")

\* the escaped path of the place a sequence of keys leads to
RECURSIVE PlacePath(_)
PlacePath(keys) ==
    IF keys = <<>> THEN ROOT
    ELSE ChildPath(PlacePath(SubSeq(keys, 1, Len(keys) - 1)), keys[Len(keys)])

\* C24: on the authoritative side the path stored for every wrapped composite
\* reachable from the value is the escaped path of a place where it sits
StoredPathsTrackLocation ==
    ~BROWSER =>
        \A id \in ReachIds(value["B"], heap) :
            metadataMap[id] # NoMeta
                => metadataMap[id].path
                       \in {PlacePath(keys) : keys \in KeyPathsTo(value["B"], heap, id)}

\* the Proxy of a wrapped value
ProxyFor(w, val) == IF val.k = "proxy" THEN val ELSE ProxyVal(w.records[MetadataOf(w, val)].proxy)

\* C25: every raw composite has at most one Proxy, and both registries hold
\* the same Metadata for a wrapped composite and its Proxy
OneToOne ==
    /\ \A p, q \in wrap.proxySet : wrap.target[p] = wrap.target[q] => p = q
    /\ \A p \in wrap.proxySet :
          /\ wrap.proxyMetadataMap[p] # NoRecord
          /\ wrap.proxyMetadataMap[p] = wrap.metadataMap[wrap.target[p]]
          /\ wrap.records[wrap.proxyMetadataMap[p]].proxy = p
    /\ \A id \in RawIds :
          wrap.metadataMap[id] # NoRecord
              => /\ wrap.records[wrap.metadataMap[id]].proxy \in wrap.proxySet
                 /\ wrap.target[wrap.records[wrap.metadataMap[id]].proxy] = id

\* C25: wrapping a wrapped composite, or its Proxy, for its own replicant
\* returns the Proxy it has and makes none
RewrapStep ==
    (wrap' # wrap /\ MetadataOf(wrap, wrap'.call.value) # NoRecord
        /\ SingleOwner(wrap, wrap'.call.replicant, wrap'.call.value))
        => /\ wrap'.err = NoErr
           /\ wrap'.ret = ProxyFor(wrap, wrap'.call.value)
           /\ wrap'.made = 0
           /\ wrap'.proxySet = wrap.proxySet
           /\ wrap'.target = wrap.target
           /\ wrap'.metadataMap = wrap.metadataMap
           /\ wrap'.proxyMetadataMap = wrap.proxyMetadataMap

NoEcho ==
    last.kind = "apply"
        => /\ last.ops = <<>>
           /\ last.postSched = last.preSched
           /\ last.postVerr = last.preVerr
           /\ last.err # "SchemaError"

\* C26: an operation was applied to a replicant that has a schema, and the
\* value it left does not satisfy the schema
NoEchoWitness ==
    /\ last.kind = "apply" /\ last.err = NoErr
    /\ last.post # last.pre
    /\ schema["B"] /\ ~SchemaValidates(last.post)

\* a composite wrapped for A is assigned, or pushed, into a composite of B
\* through its Proxy (B not suspended, and not the value the property holds)
ForeignAssignment ==
    /\ last.kind \in {"set", "mutator"}
    /\ last.rep = "B" /\ last.owner = "B" /\ ~last.suspended
    /\ last.foreign
    /\ last.kind = "set" => last.held # last.call.nv

\* C27: a composite wrapped for A stays A's, so assigning it into B fails
OwnershipPermanent ==
    /\ \A id \in Ids : InitMeta[id] # NoMeta
          => metadataMap[id] # NoMeta /\ metadataMap[id].replicant = InitMeta[id].replicant
    /\ ForeignAssignment => last.err # NoErr

\* C28: a file whose hash has been computed is eventually pushed to the
\* category replicant
DeferredEventuallyPublished ==
    \A filepath \in Files :
        (filepath \in assets.hashed) ~> (filepath \in assets.published)

\* C29: the category replicant never holds two entries with one url, and
\* holds no entry for an unlinked file once every callback has run
Quiescent == assets.hashing = <<>> /\ assets.debounced = {}

OneEntryPerFile ==
    /\ \A i, j \in DOMAIN assets.rep : assets.rep[i].url = assets.rep[j].url => i = j
    /\ Quiescent => \A i \in DOMAIN assets.rep : assets.rep[i].url \notin assets.unlinked
\* the names of a list of cues
NamesOf(cues) == {cues[i].name : i \in DOMAIN cues}

\* the cue of that name in a list of cues with different names
CueNamed(cues, name) == cues[CHOOSE i \in DOMAIN cues : cues[i].name = name]

\* the cues of the list whose names are, or are not, in a set of names
Kept(cues, names) == SelectSeq(cues, LAMBDA cue : cue.name \in names)
Others(cues, names) == SelectSeq(cues, LAMBDA cue : cue.name \notin names)

\* a cue that was persisted and is in the manifest: the persisted volume, the
\* manifest's assignable and default file, and the default file selected when
\* the cue is not assignable and has one
Reconciled(cue, persistedCue, rawCue) ==
    /\ cue.volume = persistedCue.volume
    /\ cue.assignable = (rawCue.assignable = Bool(TRUE))
    /\ cue.defaultFile.present = (rawCue.defaultFile = CuePath)
    /\ cue.defaultFile.present
          => /\ cue.defaultFile.cue = rawCue.name
             /\ cue.defaultFile.path = rawCue.defaultFile
             /\ cue.defaultFile.default
    /\ IF ~cue.assignable /\ cue.defaultFile.present
       THEN /\ cue.file.present
            /\ cue.file.cue = cue.defaultFile.cue
            /\ cue.file.path = cue.defaultFile.path
            /\ cue.file.default = cue.defaultFile.default
       ELSE cue.file = persistedCue.file

\* C30: after the construction the cue names of the replicant are those of
\* the manifest; persisted cues still in the manifest come first, reconciled,
\* the manifest's other cues are appended as their defaults; with nothing
\* persisted the value is the manifest-derived default list
SoundCueReconciliation ==
    (sounds.made /\ sounds.declared) =>
        /\ NamesOf(sounds.value) = NamesOf(sounds.manifest)
        /\ IF sounds.persisted = <<>>
           THEN sounds.value = makeCuesRepDefaultValue(sounds.manifest)
           ELSE /\ Len(sounds.value) = Len(sounds.manifest)
                /\ \A i \in DOMAIN sounds.value :
                      LET cue == sounds.value[i] IN
                      IF cue.name \in NamesOf(sounds.persisted)
                      THEN Reconciled(cue, CueNamed(sounds.persisted, cue.name),
                                      CueNamed(sounds.manifest, cue.name))
                      ELSE cue = FormatCue(CueNamed(sounds.manifest, cue.name))
                /\ [i \in DOMAIN Kept(sounds.value, NamesOf(sounds.persisted)) |->
                       Kept(sounds.value, NamesOf(sounds.persisted))[i].name]
                     = [i \in DOMAIN Kept(sounds.persisted, NamesOf(sounds.manifest)) |->
                          Kept(sounds.persisted, NamesOf(sounds.manifest))[i].name]
                /\ sounds.value =
                      Kept(sounds.value, NamesOf(sounds.persisted))
                      \o Others(makeCuesRepDefaultValue(sounds.manifest),
                                NamesOf(sounds.persisted))

\* C30: one persisted cue was removed, one was kept and given its default
\* file, and one manifest cue was appended
SoundCueWitness ==
    /\ sounds.made /\ sounds.declared
    /\ NamesOf(sounds.persisted) = {"c1", "c2"}
    /\ NamesOf(sounds.manifest) = {"c2", "c3"}
    /\ CueNamed(sounds.manifest, "c2").assignable = Bool(FALSE)
    /\ CueNamed(sounds.manifest, "c2").defaultFile = CuePath
    /\ CueNamed(sounds.persisted, "c2").file = UserFile("c2")
    /\ sounds.value[1].name = "c2" /\ sounds.value[1].volume = 80
    /\ sounds.value[1].file.path = CuePath
    /\ sounds.value[2].name = "c3" /\ sounds.value[2].volume = 0

\* the socket is in the room, or its join of the room is under way
InOrJoining(s, room) == room \in s.rooms \cup s.joining

\* one 'joinRoom' request was handled in this step
Requested == Len(socket'.requests) = Len(socket.requests) + 1

\* the room of the request handled in this step
RequestedRoom == socket'.requests[Len(socket'.requests)]

\* what the request handled in this step did: one callback; an error and no
\* join for a room that is not a string; null, the room joined, and a join
\* issued exactly when the socket's rooms did not include it, for a string
HandshakeStep ==
    Requested =>
        /\ Len(socket'.callbacks) = Len(socket.callbacks) + 1
        /\ IF ~(RequestedRoom.t = "str")
           THEN /\ socket'.callbacks[Len(socket'.callbacks)] = RoomError
                /\ socket'.joins = socket.joins
                /\ socket'.rooms = socket.rooms
                /\ socket'.joining = socket.joining
           ELSE /\ socket'.callbacks[Len(socket'.callbacks)] = CbNull
                /\ InOrJoining(socket', RequestedRoom)
                /\ IF RequestedRoom \in socket.rooms
                   THEN /\ socket'.joins = socket.joins
                        /\ socket'.rooms = socket.rooms
                        /\ socket'.joining = socket.joining
                   ELSE /\ socket'.joins = Append(socket.joins, RequestedRoom)
                        /\ socket'.rooms \cup socket'.joining =
                               socket.rooms \cup socket.joining \cup {RequestedRoom}

\* every request has had its callback, and the socket is in no room that is
\* not a string it asked for
OneCallbackEach ==
    /\ Len(socket.callbacks) = Len(socket.requests)
    /\ \A room \in socket.rooms \cup socket.joining :
           /\ room.t = "str"
           /\ \E i \in 1..Len(socket.requests) : socket.requests[i] = room

\* C31: every 'joinRoom' request has its callback invoked exactly once; a
\* room that is not a string gets the error and the socket joins nothing; a
\* string gets null and the socket is a member of the room afterwards, join
\* being issued only when the socket's rooms did not include it, so that a
\* repeated request changes nothing
JoinRoomHandshake ==
    /\ []OneCallbackEach
    /\ [][HandshakeStep]_vars
    /\ \A room \in RoomInputs :
           (room.t = "str" /\ \E i \in 1..Len(socket.requests) : socket.requests[i] = room)
               ~> (room \in socket.rooms)

\* C31: a room was asked for twice and joined once, and a request with a
\* room that is not a string was answered with the error
JoinRoomWitness ==
    /\ socket.requests = <<Str(1), Str(1), Num(1)>>
    /\ socket.joins = <<Str(1)>>
    /\ socket.rooms = {Str(1)}
    /\ socket.callbacks = <<CbNull, CbNull, RoomError>>

====
